---- MODULE Spec2Model ----
(***************************************************************************)
(* key-mapper injection core: the key/combination tracker                  *)
(* (keymapper/dev/keycode_mapper.py), the macros it starts                 *)
(* (keymapper/dev/macros.py), the event classifier (keymapper/dev/utils.py)*)
(* and the consumer loop of the injector (keymapper/dev/injector.py); the  *)
(* life of a KeycodeInjector and of its worker process; the compilation of *)
(* a mapping into the lookup tables.                                       *)
(*                                                                         *)
(* Events are tuples <<type, code, value>>, Keys are sequences of such     *)
(* tuples, exactly as in the source.  The virtual output is the log `out`  *)
(* of everything written to the uinput, EV_SYN reports included.           *)
(***************************************************************************)
EXTENDS Integers, Sequences, FiniteSets, TLC

VARIABLES
    cfg,            \* name of the preset the injector was constructed with
    key_to_code,    \* KeycodeInjector._key_to_code
    macros,         \* the macros dict of the source node: Key -> macro instance
    handler,        \* _Macro.handler of every macro instance
    unreleased,     \* keycode_mapper.unreleased (a dict: insertion ordered)
    active_macros,  \* keycode_mapper.active_macros
    holding,        \* _Macro.holding of every macro instance
    running,        \* _Macro.running of every macro instance
    runs,           \* the run() coroutines scheduled on the event loop
    debounces,      \* pending deferred calls of the event producer
    out,            \* write history of the uinput
    inp,            \* history: the events handed to handle_keycode, in order
    stamps,         \* history: for each of them, the producer tick it came at
    nread,          \* history: number of events read from the source node
    now,            \* history: producer ticks so far with a deferred call pending
    calls,          \* history: the calls made on the macro of cfg, by name
    \* the KeycodeInjector object, in the process that constructed it
    stopped,        \* KeycodeInjector.stopped
    process,        \* KeycodeInjector._process
    msg_pipe,       \* KeycodeInjector._msg_pipe: the messages in flight
    \* the devices, as get_devices and evdev present them
    device_known,   \* self.device in get_devices()
    nodes,          \* per path of the device: the node and how often grab fails
    \* the worker _start_injecting in the injector process
    pc,             \* where the worker is
    path,           \* `for path in paths`: index of the current path
    attempts,       \* _prepare_device: attempts
    grabbed,        \* paths whose source is grabbed
    uinputs,        \* paths whose evdev.UInput is open
    uinput_events,  \* per such path, the capabilities of the UInput
    coroutines,     \* _start_injecting: coroutines
    loop_tasks,     \* the coroutines the running event loop drives
    ended_by,       \* history: the exit path the worker took
    created,        \* history: multiprocessing.Process objects started
    starts,         \* history: calls of start_injecting
    raised,         \* history: calls of start_injecting that raised
    grab_calls,     \* history: per path, calls of device.grab()
    sleeps,         \* history: per path, calls of time.sleep(regrab_timeout)
    received,       \* history: messages _msg_listener received
    reads,          \* history: events the consumers read
    \* NumLock, and the desktop the injector runs on
    numlock,        \* the NumLock state of the keyboard
    desktop,        \* whether xset and numlockx work, whether a grab changes NumLock
    numlock_state,  \* _start_injecting: numlock_state
    ensured,        \* history: the calls of functions wrapped by ensure_numlock
    \* inputs of the pure functions
    custom_mapping, \* a Mapping handed to KeycodeInjector.__init__
    classified      \* an event on its way through should_map_event_as_btn

tracker_vars == <<unreleased, active_macros, holding, running, runs, debounces,
                  out, inp, stamps, nread, now, calls>>

table_vars == <<cfg, key_to_code, macros, handler, custom_mapping>>

injector_vars == <<stopped, process, msg_pipe, device_known, nodes, pc, path,
                   attempts, grabbed, uinputs, uinput_events, coroutines,
                   loop_tasks, ended_by, created, starts, raised, grab_calls,
                   sleeps, received, reads, numlock, desktop, numlock_state,
                   ensured>>

numlock_vars == <<numlock, desktop, numlock_state, ensured>>

vars == <<tracker_vars, table_vars, injector_vars, classified>>

----------------------------------------------------------------------------
\* Bounds of the model

\* events read from the source node in one behaviour
MaxEvents == 4
\* the uinput history is followed up to this many writes by macros
MaxOut == 16
\* steps one resumption of a macro coroutine may take before it awaits
ExecFuel == 40
\* grab attempts a node may fail before it can be grabbed
MaxBusy == 4
\* messages sent through the pipe of one injector
MaxMsgs == 3
\* calls of start_injecting on one injector
MaxStarts == 3
\* events the consumers of one injector read
MaxReads == 2
\* largest magnitude an absolute axis reports (AbsInfo.max)
MaxAbs == 4
\* times one event object is passed through the classifier
MaxPasses == 2
\* entries of a mapping
MaxMappings == 2
\* calls made on a macro
MaxCalls == 4
\* calls of functions wrapped by ensure_numlock
MaxEnsured == 2

----------------------------------------------------------------------------
\* evdev.ecodes and keymapper constants

EV_SYN == 0
EV_KEY == 1
EV_REL == 2
EV_ABS == 3
EV_FF == 21
SYN_REPORT == 0
REL_HWHEEL == 6
REL_WHEEL == 8
REL_X == 0
REL_Y == 1
BTN_MOUSE == 272
BTN_LEFT == BTN_MOUSE
ABS_X == 0
ABS_Y == 1
ABS_RX == 3
ABS_RY == 4
ABS_HAT0X == 16
MT_FIRST == 47
MT_LAST == 61
DISABLE_CODE == -10
DEBOUNCE_TICKS == 3

None == "None"
BUTTONS == "buttons"
MOUSE == "mouse"
WHEEL == "wheel"

JOYSTICK == {ABS_X, ABS_Y, ABS_RX, ABS_RY}

Min(S) == CHOOSE x \in S : \A y \in S : x <= y

----------------------------------------------------------------------------
\* keymapper/dev/utils.py: the event classifier

sign(value) == IF value > 0 THEN 1 ELSE IF value < 0 THEN -1 ELSE 0

abs(value) == IF value < 0 THEN -value ELSE value

is_wheel(event) == event[1] = EV_REL /\ event[2] \in {REL_WHEEL, REL_HWHEEL}

\* abs(event.value) > max_abs * JOYSTICK_BUTTON_THRESHOLD.  The threshold is
\* the double math.sin((math.pi / 2) / 3), which is 0.49999999999999994, so
\* for an integer value and an integer max_abs the comparison is true exactly
\* when twice the magnitude reaches max_abs.
joystick_triggered(value, max_abs) ==
    abs(value) > 0 /\ 2 * abs(value) >= max_abs

\* The verdict and the (possibly rewritten) event.  max_abs is <<>> where
\* get_max_abs returns None and <<m>> where it returns m.
should_map_event_as_btn(max_abs, event, l_purpose, r_purpose) ==
    LET normalized(v) == <<event[1], event[2], v>>
        no  == [btn |-> FALSE, event |-> event]
        yes(e) == [btn |-> TRUE, event |-> e]
        stick == normalized(IF joystick_triggered(event[3], max_abs[1])
                            THEN sign(event[3]) ELSE 0)
    IN  IF event[1] = EV_KEY THEN yes(event)
        ELSE IF event[1] = EV_ABS /\ MT_FIRST <= event[2] /\ event[2] <= MT_LAST
        THEN no
        ELSE IF is_wheel(event) THEN yes(event)
        ELSE IF event[1] = EV_ABS
        THEN IF event[2] \in JOYSTICK
             THEN IF max_abs = <<>> THEN no
                  ELSE IF event[2] \in {ABS_X, ABS_Y} /\ l_purpose = BUTTONS
                  THEN yes(stick)
                  ELSE IF event[2] \in {ABS_RX, ABS_RY} /\ r_purpose = BUTTONS
                  THEN yes(stick)
                  ELSE no
             ELSE yes(normalized(sign(event[3])))
        ELSE no

----------------------------------------------------------------------------
\* keymapper/dev/macros.py: _Macro and the calls that populate it

\* the keycode name table the presets below are compiled against
SystemMapping ==
    [a |-> 100, key_q |-> 101, w |-> 102, x |-> 50, y |-> 51,
     disable |-> DISABLE_CODE]

new_Macro == [tasks |-> <<>>, child_macros |-> <<>>, capabilities |-> {}]

SLEEP_TASK == [kind |-> "SLEEP"]

add_keycode_pause(self) == [self EXCEPT !.tasks = Append(@, SLEEP_TASK)]

\* k(character)
keycode(self, character) ==
    LET code == SystemMapping[character]
        down == [kind |-> "KEYSTROKE", code |-> code, value |-> 1]
        up   == [kind |-> "KEYSTROKE", code |-> code, value |-> 0]
        pressed == add_keycode_pause([self EXCEPT !.tasks = Append(@, down)])
        released == add_keycode_pause([pressed EXCEPT !.tasks = Append(@, up)])
    IN  [released EXCEPT !.capabilities = @ \cup {code}]

\* h(macro) that runs the macro once
hold_once(self, macro) ==
    [self EXCEPT !.tasks = Append(@, [kind |-> "CHILD_MACRO", macro |-> macro]),
                 !.child_macros = Append(@, macro)]

\* h(macro): macro names a macro instance of MacroTable
hold(self, macro) ==
    [self EXCEPT !.tasks = Append(@, [kind |-> "REPEAT", macro |-> macro]),
                 !.child_macros = Append(@, macro)]

\* m(modifier, macro)
modify(self, modifier, macro) ==
    LET code == SystemMapping[modifier]
        down == [kind |-> "MODIFIER", code |-> code, value |-> 1]
        up   == [kind |-> "MODIFIER", code |-> code, value |-> 0]
        call == [kind |-> "CHILD_MACRO", macro |-> macro]
        with_child == [self EXCEPT !.capabilities = @ \cup {code},
                                   !.child_macros = Append(@, macro)]
        pressed == add_keycode_pause([with_child EXCEPT !.tasks = Append(@, down)])
        ran == add_keycode_pause([pressed EXCEPT !.tasks = Append(@, call)])
    IN  add_keycode_pause([ran EXCEPT !.tasks = Append(@, up)])

\* r(repeats, macro): `for _ in range(repeats)`, nothing for repeats < 1
repeat(self, repeats, macro) ==
    [self EXCEPT !.tasks = @ \o [i \in 1..repeats |->
                                    [kind |-> "CHILD_MACRO", macro |-> macro]],
                 !.child_macros = Append(@, macro)]

\* w(sleeptime): a sleep; the model does not measure how long it is
wait(self, sleeptime) == [self EXCEPT !.tasks = Append(@, SLEEP_TASK)]

\* The macro instances of the presets, as parse() builds them; the body of
\* a call is an instance of its own:
\*   qw:   k(KEY_Q).k(w)
\*   h_a:  h(k(a)), whose body is the instance k_a
\*   m_w:  m(w, r(2, k(x))).k(y), whose bodies are r_2 and, in r_2, k_x
\*   khk:  k(x).h(k(a)).k(y), whose body is khk_a
\*   off:  k(disable)
\*   r_0:  r(0, k(y)).w(2), whose body is r_0_y
MacroTable ==
    [qw  |-> keycode(keycode(new_Macro, "key_q"), "w"),
     k_a |-> keycode(new_Macro, "a"),
     h_a |-> hold(new_Macro, "k_a"),
     m_w |-> keycode(modify(new_Macro, "w", "r_2"), "y"),
     r_2 |-> repeat(new_Macro, 2, "k_x"),
     k_x |-> keycode(new_Macro, "x"),
     khk |-> keycode(hold(keycode(new_Macro, "x"), "khk_a"), "y"),
     khk_a |-> keycode(new_Macro, "a"),
     off |-> keycode(new_Macro, "disable"),
     r_0 |-> wait(repeat(new_Macro, 0, "r_0_y"), 2),
     r_0_y |-> keycode(new_Macro, "y")]

MacroIds == DOMAIN MacroTable

\* the capabilities that do not look into the child macros
get_capabilities_own(macro) == MacroTable[macro].capabilities

RECURSIVE get_capabilities(_)
\* _Macro.get_capabilities: the own capabilities and those of the children
get_capabilities(macro) ==
    LET children == MacroTable[macro].child_macros
    IN  MacroTable[macro].capabilities
            \cup UNION {get_capabilities(children[i]) : i \in 1..Len(children)}

\* the handler of a macro that set_handler has not been called on: it logs
\* 'No handler set' and writes nothing
NO_HANDLER == "No handler set"

\* the handler the injector sets: _macro_write to the uinput of the node
MACRO_WRITE == "_macro_write"

\* set_handler that leaves the child macros alone
set_handler_own(handlers, macro, a_handler) ==
    [handlers EXCEPT ![macro] = a_handler]

RECURSIVE set_handler(_, _, _)
\* _Macro.set_handler: on the macro and on every child macro
set_handler(handlers, macro, a_handler) ==
    LET children == MacroTable[macro].child_macros
        RECURSIVE over(_, _)
        over(hh, i) == IF i > Len(children) THEN hh
                       ELSE over(set_handler(hh, children[i], a_handler), i + 1)
    IN  over([handlers EXCEPT ![macro] = a_handler], 1)

RECURSIVE set_holding(_, _, _)
\* press_key (value TRUE) and release_key (value FALSE), children included
set_holding(h, macro, value) ==
    LET children == MacroTable[macro].child_macros
        RECURSIVE over(_, _)
        over(hh, i) == IF i > Len(children) THEN hh
                       ELSE over(set_holding(hh, children[i], value), i + 1)
    IN  over([h EXCEPT ![macro] = value], 1)

press_key(h, macro) == set_holding(h, macro, TRUE)

release_key(h, macro) == set_holding(h, macro, FALSE)

----------------------------------------------------------------------------
\* keymapper/dev/macros.py: the parser.  A macro source is the text parse()
\* is left with once it has removed whitespace and quotation marks: the
\* sequence of its words (\w+) and of the brackets, commas and dots between
\* them.

Punctuation == {"(", ")", ",", "."}

\* what a call returns or raises: a _Macro, an int, a str, None, or the
\* exception that leaves it
value_of(type, value) == [type |-> type, value |-> value]

raise(error) == value_of("raised", error)

NoneValue == value_of("NoneType", None)

\* int(macro): the words Python reads as a number
Numbers == ("0" :> 0) @@ ("1" :> 1) @@ ("2" :> 2) @@ ("02" :> 2)

\* str() of an int
Decimal == (0 :> "0") @@ (1 :> "1") @@ (2 :> "2")

\* macro.count(char)
count(macro, char) == Cardinality({i \in 1..Len(macro) : macro[i] = char})

RECURSIVE brackets_after(_, _)
\* the brackets that are open after the first i places of the text
brackets_after(macro, i) ==
    IF i = 0 THEN 0
    ELSE brackets_after(macro, i - 1)
            + (IF macro[i] = "(" THEN 1 ELSE IF macro[i] = ")" THEN -1 ELSE 0)

\* _count_brackets raises
unbalanced(macro) == count(macro, "(") # count(macro, ")")

\* _count_brackets returns: where the first opening bracket closes
count_brackets(macro) ==
    LET closing == {i \in 1..Len(macro) :
                       macro[i] = ")" /\ brackets_after(macro, i) = 0}
    IN  IF closing = {} THEN Len(macro) ELSE Min(closing)

\* _extract_params: the text between the commas that no bracket encloses
extract_params(inner) ==
    LET commas == {i \in 1..Len(inner) :
                      inner[i] = "," /\ brackets_after(inner, i) = 0}
        RECURSIVE params_from(_)
        params_from(start) ==
            LET ahead == {i \in commas : i >= start}
            IN  IF ahead = {} THEN <<SubSeq(inner, start, Len(inner))>>
                ELSE <<SubSeq(inner, start, Min(ahead) - 1)>>
                        \o params_from(Min(ahead) + 1)
    IN  params_from(1)

\* the functions of a macro and the number of their parameters
functions == [m |-> 2, r |-> 2, k |-> 1, w |-> 1, h |-> 1]

\* system_mapping.get(str(param)) is not None
is_known_name(param) ==
    CASE param.type = "int" -> Decimal[param.value] \in DOMAIN SystemMapping
      [] param.type = "str" -> /\ Len(param.value) = 1
                               /\ param.value[1] \in DOMAIN SystemMapping
      [] OTHER -> FALSE

\* str(param), for a param that names a key
name_of(param) ==
    IF param.type = "int" THEN Decimal[param.value] ELSE param.value[1]

\* function[0](*params): the call on the macro instance, with what it raises
call_function(call, self, params) ==
    CASE call = "k" ->
            IF is_known_name(params[1])
            THEN value_of("_Macro", keycode(self, name_of(params[1])))
            ELSE raise("KeyError")
      [] call = "w" ->
            IF params[1].type = "int"
            THEN value_of("_Macro", wait(self, params[1].value))
            ELSE IF params[1].type = "str" THEN raise("ValueError")
            ELSE raise("TypeError")
      [] call = "h" ->
            IF params[1].type = "_Macro"
            THEN value_of("_Macro", hold(self, params[1].value))
            ELSE raise("ValueError")
      [] call = "r" ->
            IF params[2].type # "_Macro" THEN raise("ValueError")
            ELSE IF params[1].type = "str" THEN raise("ValueError")
            ELSE IF params[1].type = "_Macro" THEN raise("TypeError")
            ELSE value_of("_Macro",
                          repeat(self, params[1].value, params[2].value))
      [] call = "m" ->
            IF params[2].type # "_Macro" THEN raise("ValueError")
            ELSE IF ~is_known_name(params[1]) THEN raise("KeyError")
            ELSE value_of("_Macro",
                          modify(self, name_of(params[1]), params[2].value))

RECURSIVE parse_recurse(_, _)
\* _parse_recurse(macro, mapping, macro_instance): a call adds its tasks to
\* macro_instance, whatever follows its dot goes on with the same instance;
\* a param that is no call is an int or a str
parse_recurse(macro, macro_instance) ==
    LET call == IF Len(macro) >= 2 /\ macro[1] \notin Punctuation
                       /\ macro[2] = "("
                THEN macro[1] ELSE None
    IN  IF call # None
        THEN IF call \notin DOMAIN functions THEN raise("Unknown function")
             ELSE IF unbalanced(macro) THEN raise("brackets")
             ELSE
             LET position == count_brackets(macro)
                 inner == SubSeq(macro, 3, position - 1)
                 string_params == extract_params(inner)
                 params == [i \in 1..Len(string_params) |->
                               parse_recurse(string_params[i], new_Macro)]
                 failed == {i \in 1..Len(params) : params[i].type = "raised"}
             IN  IF failed # {} THEN params[Min(failed)]
                 ELSE IF Len(params) # functions[call] THEN raise("ValueError")
                 ELSE
                 LET called == call_function(call, macro_instance, params)
                 IN  IF called.type = "raised" THEN called
                     ELSE IF Len(macro) > position /\ macro[position + 1] = "."
                     THEN LET chain == SubSeq(macro, position + 2, Len(macro))
                              chained == parse_recurse(chain, called.value)
                          IN  IF chained.type \in {"raised", "_Macro"}
                              THEN chained
                              ELSE called
                     ELSE called
        ELSE IF Len(macro) = 1 /\ macro[1] \in DOMAIN Numbers
        THEN value_of("int", Numbers[macro[1]])
        ELSE value_of("str", macro)

\* parse(macro, mapping, return_errors)
parse(macro, return_errors) ==
    LET macro_object == parse_recurse(macro, new_Macro)
    IN  IF macro_object.type = "raised"
        THEN IF return_errors THEN value_of("str", macro_object.value)
             ELSE NoneValue
        ELSE IF return_errors THEN NoneValue ELSE macro_object

----------------------------------------------------------------------------
\* The presets (Mapping objects) an injector is constructed with.  A mapping
\* is a sequence of <<Key, output>>; an output is a symbol name or a macro.

symbol(name) == [symbol |-> name, macro |-> None]

macro_code(id) == [symbol |-> None, macro |-> id]

\* The texts of the outputs that are not the name of a key.  For a text that
\* parse() builds a _Macro of, MacroTable holds the instance under the same
\* name.
Code ==
    [qw  |-> <<"k", "(", "key_q", ")", ".", "k", "(", "w", ")">>,
     h_a |-> <<"h", "(", "k", "(", "a", ")", ")">>,
     m_w |-> <<"m", "(", "w", ",", "r", "(", "02", ",", "k", "(", "x", ")",
               ")", ")", ".", "k", "(", "y", ")">>,
     khk |-> <<"k", "(", "x", ")", ".", "h", "(", "k", "(", "a", ")", ")",
               ".", "k", "(", "y", ")">>,
     off |-> <<"k", "(", "disable", ")">>,
     r_0 |-> <<"r", "(", "0", ",", "k", "(", "y", ")", ")", ".",
               "w", "(", "2", ")">>,
     \* k((a) and k(a)): brackets that do not match
     e_opening |-> <<"k", "(", "(", "a", ")">>,
     e_closing |-> <<"k", "(", "a", ")", ")">>,
     \* x(a): no such function
     e_function |-> <<"x", "(", "a", ")">>,
     \* k(a, a) and r(2): one parameter too many, one too few
     e_many |-> <<"k", "(", "a", ",", "a", ")">>,
     e_few |-> <<"r", "(", "2", ")">>,
     \* r(2, a), m(w, a), h(a): the body is no macro
     e_body_r |-> <<"r", "(", "2", ",", "a", ")">>,
     e_body_m |-> <<"m", "(", "w", ",", "a", ")">>,
     e_body_h |-> <<"h", "(", "a", ")">>,
     \* r(a, k(a)) and r(k(a), k(a)): the count is no number
     e_count |-> <<"r", "(", "a", ",", "k", "(", "a", ")", ")">>,
     e_count_macro |-> <<"r", "(", "k", "(", "a", ")", ",", "k", "(", "a", ")", ")">>,
     \* k(b) and m(b, k(a)): no such key
     e_key |-> <<"k", "(", "b", ")">>,
     e_modifier |-> <<"m", "(", "b", ",", "k", "(", "a", ")", ")">>,
     \* k(a).k(b): the failure is behind a dot
     e_chain |-> <<"k", "(", "a", ")", ".", "k", "(", "b", ")">>,
     \* (k(a) and )k(a): the text does not begin with a call
     e_leading |-> <<"(", "k", "(", "a", ")">>,
     e_trailing |-> <<")", "k", "(", "a">>,
     \* k(): shorter than a macro
     e_short |-> <<"k", "(", ")">>,
     \* K(a) and R(2, K(a)): the names of the functions in capital letters
     e_upper_k |-> <<"K", "(", "a", ")">>,
     e_upper_r |-> <<"R", "(", "2", ",", "K", "(", "a", ")", ")">>]

\* the words of the texts that have more than one character
LongWords == [key_q |-> 5, disable |-> 7] @@ ("02" :> 2)

RECURSIVE len(_)
\* len(output): the characters of a text
len(text) ==
    IF text = <<>> THEN 0
    ELSE (IF Head(text) \in DOMAIN LongWords THEN LongWords[Head(text)] ELSE 1)
            + len(Tail(text))

\* is_this_a_macro(output): the name of a key holds no bracket
is_this_a_macro(output) ==
    /\ output.macro # None
    /\ LET text == Code[output.macro]
       IN  /\ \E i \in 1..Len(text) : text[i] = "("
           /\ \E i \in 1..Len(text) : text[i] = ")"
           /\ len(text) >= 4

Key1(a) == <<a>>

Presets ==
    [remap |->
        [mapping |-> << <<Key1(<<EV_KEY, 30, 1>>), symbol("a")>>,
                        <<Key1(<<EV_KEY, 31, 1>>), symbol("b")>> >>,
         events |-> {<<EV_KEY, 30, 1>>, <<EV_KEY, 30, 0>>, <<EV_KEY, 30, 2>>,
                     <<EV_KEY, 31, 1>>, <<EV_KEY, 31, 0>>, <<EV_REL, REL_X, 5>>}],
     dpad |->
        [mapping |-> << <<Key1(<<EV_ABS, ABS_HAT0X, -1>>), symbol("a")>>,
                        <<Key1(<<EV_KEY, 40, 1>>), symbol("disable")>> >>,
         events |-> {<<EV_ABS, ABS_HAT0X, -1>>, <<EV_ABS, ABS_HAT0X, 0>>,
                     <<EV_ABS, ABS_HAT0X, 1>>,
                     <<EV_KEY, 40, 1>>, <<EV_KEY, 40, 0>>}],
     combo3 |->
        [mapping |-> << << <<<<EV_KEY, 1, 1>>, <<EV_KEY, 2, 1>>, <<EV_KEY, 3, 1>>>>,
                           symbol("x")>> >>,
         events |-> {<<EV_KEY, 1, 1>>, <<EV_KEY, 2, 1>>, <<EV_KEY, 3, 1>>,
                     <<EV_KEY, 1, 0>>, <<EV_KEY, 2, 0>>, <<EV_KEY, 3, 0>>}],
     combomacro |->
        [mapping |-> << << <<<<EV_KEY, 8, 1>>, <<EV_KEY, 9, 1>>>>,
                           macro_code("qw")>> >>,
         events |-> {<<EV_KEY, 8, 1>>, <<EV_KEY, 8, 0>>,
                     <<EV_KEY, 9, 1>>, <<EV_KEY, 9, 0>>}],
     holdmacro |->
        [mapping |-> << <<Key1(<<EV_KEY, 10, 1>>), macro_code("h_a")>> >>,
         events |-> {<<EV_KEY, 10, 1>>, <<EV_KEY, 10, 0>>, <<EV_KEY, 10, 2>>}],
     wheel |->
        [mapping |-> << <<Key1(<<EV_REL, REL_WHEEL, 1>>), symbol("x")>> >>,
         events |-> {<<EV_REL, REL_WHEEL, 1>>, <<EV_REL, REL_WHEEL, -1>>,
                     <<EV_REL, REL_HWHEEL, 1>>}],
     unknown |->
        [mapping |-> << << <<<<EV_KEY, 20, 1>>, <<EV_KEY, 21, 1>>, <<EV_KEY, 22, 1>>>>,
                           symbol("b")>>,
                        <<Key1(<<EV_KEY, 23, 1>>), symbol("x")>> >>,
         events |-> {<<EV_KEY, 20, 1>>, <<EV_KEY, 21, 1>>, <<EV_KEY, 22, 1>>,
                     <<EV_KEY, 20, 0>>, <<EV_KEY, 22, 0>>, <<EV_KEY, 23, 1>>}],
     \* a mouse: a movement comes as REL_X and the SYN_REPORT of its packet
     pointer |->
        [mapping |-> << <<Key1(<<EV_KEY, 11, 1>>), macro_code("qw")>> >>,
         events |-> {<<EV_REL, REL_X, 5>>, <<EV_SYN, SYN_REPORT, 0>>,
                     <<EV_KEY, 11, 1>>}],
     \* a + b + c and b + c are both mapped
     longest |->
        [mapping |-> << << <<<<EV_KEY, 60, 1>>, <<EV_KEY, 61, 1>>, <<EV_KEY, 62, 1>>>>,
                           symbol("x")>>,
                        << <<<<EV_KEY, 61, 1>>, <<EV_KEY, 62, 1>>>>, symbol("y")>> >>,
         events |-> {<<EV_KEY, 60, 1>>, <<EV_KEY, 61, 1>>, <<EV_KEY, 62, 1>>,
                     <<EV_KEY, 61, 0>>, <<EV_KEY, 62, 0>>}],
     \* a key that starts a macro and is the first sub-key of a combination
     macrosub |->
        [mapping |-> << <<Key1(<<EV_KEY, 70, 1>>), macro_code("qw")>>,
                        << <<<<EV_KEY, 70, 1>>, <<EV_KEY, 71, 1>>>>, symbol("x")>> >>,
         events |-> {<<EV_KEY, 70, 1>>, <<EV_KEY, 70, 0>>, <<EV_KEY, 71, 1>>}]]

PresetNames == DOMAIN Presets

\* the presets leave the joystick purposes at their default and read from
\* nodes without absolute axes information
l_purpose == MOUSE
r_purpose == WHEEL
max_abs == <<>>

\* Key.get_permutations: every ordering of the sub-keys that keeps the last
\* one (the trigger) last
get_permutations(key) ==
    LET n == Len(key)
        orders == {p \in [1..n -> 1..n] :
                      /\ p[n] = n
                      /\ \A i, j \in 1..n : i # j => p[i] # p[j]}
    IN  {[i \in 1..n |-> key[p[i]]] : p \in orders}

RECURSIVE map_keys_to_codes_from(_, _, _)
map_keys_to_codes_from(mapping, i, table) ==
    IF i > Len(mapping) THEN table
    ELSE LET key == mapping[i][1]
             output == mapping[i][2]
         IN  IF is_this_a_macro(output)
             THEN map_keys_to_codes_from(mapping, i + 1, table)
             ELSE IF output.symbol \notin DOMAIN SystemMapping
             THEN map_keys_to_codes_from(mapping, i + 1, table)
             ELSE map_keys_to_codes_from(mapping, i + 1,
                    [permutation \in get_permutations(key)
                        |-> SystemMapping[output.symbol]] @@ table)

\* the keys are stored as the mapping has them
map_keys_to_codes_as_given(mapping) ==
    LET known == {i \in 1..Len(mapping) :
                     /\ ~is_this_a_macro(mapping[i][2])
                     /\ mapping[i][2].symbol \in DOMAIN SystemMapping}
        entry(key) == CHOOSE i \in known : mapping[i][1] = key
    IN  [key \in {mapping[i][1] : i \in known}
            |-> SystemMapping[mapping[entry(key)][2].symbol]]

\* KeycodeInjector._map_keys_to_codes
map_keys_to_codes(mapping) == map_keys_to_codes_from(mapping, 1, <<>>)

RECURSIVE parse_macros_from(_, _, _)
parse_macros_from(mapping, i, table) ==
    IF i > Len(mapping) THEN table
    ELSE LET key == mapping[i][1]
             output == mapping[i][2]
         IN  IF is_this_a_macro(output)
                    /\ parse(Code[output.macro], FALSE).type # "NoneType"
             THEN parse_macros_from(mapping, i + 1,
                    [permutation \in get_permutations(key) |-> output.macro]
                        @@ table)
             ELSE parse_macros_from(mapping, i + 1, table)

\* the macros dict _start_injecting builds for a source node: it holds what
\* parse() returned by the name of the text, a _Macro (an instance of
\* MacroTable) or, for a text that is no call, the text
parse_macros(mapping) == parse_macros_from(mapping, 1, <<>>)

\* the entries of a macros dict that hold no _Macro
no_macro_objects(mcs) == {key \in DOMAIN mcs : mcs[key] \notin MacroIds}

----------------------------------------------------------------------------
\* keymapper/dev/keycode_mapper.py: the key/combination tracker

is_key_down(event) == event[3] # 0

is_key_up(event) == event[3] = 0

SYN == <<EV_SYN, SYN_REPORT, 0>>

\* write without uinput.syn()
write_only(history, key) == Append(history, key)

\* write(uinput, key): uinput.write(*key) and uinput.syn()
write(history, key) == history \o <<key, SYN>>

RECURSIVE combinations(_, _)
\* itertools.combinations(iterable, r), in the order itertools yields them
combinations(iterable, r) ==
    IF r = 0 THEN << <<>> >>
    ELSE IF Len(iterable) < r THEN <<>>
    ELSE LET with == combinations(Tail(iterable), r - 1)
         IN  [i \in 1..Len(with) |-> <<Head(iterable)>> \o with[i]]
                \o combinations(Tail(iterable), r)

RECURSIVE subsets_of_length(_, _)
subsets_of_length(combination, length) ==
    IF length < 2 THEN <<>>
    ELSE combinations(combination, length)
            \o subsets_of_length(combination, length - 1)

\* subsets with range(2, len(combination)): the full combination is left out
subsets_short(combination) ==
    subsets_of_length(combination, Len(combination) - 1)

RECURSIVE subsets_from_length(_, _)
subsets_from_length(combination, length) ==
    IF length > Len(combination) THEN <<>>
    ELSE combinations(combination, length)
            \o subsets_from_length(combination, length + 1)

\* subsets without lengths.reverse(): the shortest first
subsets_shortest_first(combination) == subsets_from_length(combination, 2)

\* subsets(combination): the longest first
subsets(combination) == subsets_of_length(combination, Len(combination))

\* the unreleased dict is a sequence of entries in insertion order:
\* [type_code, target (what_will_be_released), event (what_caused_the_key_down)]
unreleased_keys(u) == {u[i].type_code : i \in 1..Len(u)}

unreleased_get(u, type_code) ==
    u[CHOOSE i \in 1..Len(u) : u[i].type_code = type_code]

\* unreleased[type_code] = (target, event): an existing key keeps its place
unreleased_set(u, type_code, target, event) ==
    LET entry == [type_code |-> type_code, target |-> target, event |-> event]
    IN  IF type_code \in unreleased_keys(u)
        THEN [i \in 1..Len(u) |->
                IF u[i].type_code = type_code THEN entry ELSE u[i]]
        ELSE Append(u, entry)

\* del unreleased[type_code]
unreleased_del(u, type_code) ==
    SelectSeq(u, LAMBDA entry : entry.type_code # type_code)

\* no event is taken for a button-hold event
no_hold_repeat(event) == FALSE

\* the button-hold events Linux creates on its own
is_hold_repeat(event) == event[1] = EV_KEY /\ event[3] = 2

\* tuple([value[1] for value in unreleased.values()] + [key])
current_combination(u, key) ==
    [i \in 1..Len(u) |-> u[i].event] \o <<key>>

\* only key_to_code is looked at, macros is not
is_triggered_codes_only(subset, key, k2c, mcs) ==
    /\ subset[Len(subset)] = key
    /\ subset \in DOMAIN k2c

\* a subset is of interest if the newest input completes it and it is mapped
is_triggered(subset, key, k2c, mcs) ==
    /\ subset[Len(subset)] = key
    /\ (subset \in DOMAIN mcs \/ subset \in DOMAIN k2c)

\* the Key that indexes key_to_code and macros for this event
effective_key(k2c, mcs, u, key) ==
    LET found == subsets(current_combination(u, key))
        hits == {i \in 1..Len(found) : is_triggered(found[i], key, k2c, mcs)}
    IN  IF hits = {} THEN <<key>> ELSE found[Min(hits)]

\* active_macros.get(type_code)
active_macro_of(am, type_code) ==
    IF type_code \in DOMAIN am THEN am[type_code] ELSE None

\* release that returns on a disabled key before it deletes the entry
release_keep_disabled(s, type_code, active_macro) ==
    LET s1 == IF active_macro # None /\ s.holding[active_macro]
              THEN [s EXCEPT !.holding = release_key(@, active_macro)]
              ELSE s
    IN  IF type_code \in unreleased_keys(s1.unreleased)
        THEN LET target == unreleased_get(s1.unreleased, type_code).target
             IN  IF target[2] = DISABLE_CODE THEN s1
                 ELSE [s1 EXCEPT !.unreleased = unreleased_del(@, type_code),
                                 !.out = write(@, <<target[1], target[2], 0>>)]
        ELSE s1

\* release that writes the up of the input, not of what it holds down
release_input(s, type_code, active_macro) ==
    LET s1 == IF active_macro # None /\ s.holding[active_macro]
              THEN [s EXCEPT !.holding = release_key(@, active_macro)]
              ELSE s
    IN  IF type_code \in unreleased_keys(s1.unreleased)
        THEN LET target == unreleased_get(s1.unreleased, type_code).target
                 s2 == [s1 EXCEPT !.unreleased = unreleased_del(@, type_code)]
             IN  IF target[2] = DISABLE_CODE THEN s2
                 ELSE [s2 EXCEPT !.out = write(@, <<type_code[1], type_code[2], 0>>)]
        ELSE s1

\* is_key_up(event): tell the macro, release what the input holds down
release(s, type_code, active_macro) ==
    LET s1 == IF active_macro # None /\ s.holding[active_macro]
              THEN [s EXCEPT !.holding = release_key(@, active_macro)]
              ELSE s
    IN  IF type_code \in unreleased_keys(s1.unreleased)
        THEN LET target == unreleased_get(s1.unreleased, type_code).target
                 s2 == [s1 EXCEPT !.unreleased = unreleased_del(@, type_code)]
             IN  IF target[2] = DISABLE_CODE THEN s2
                 ELSE [s2 EXCEPT !.out = write(@, <<target[1], target[2], 0>>)]
        ELSE s1

\* a key-down of a macro that was started for this input, running or not
macro_already_started(s, key, mcs, active_macro) ==
    key \in DOMAIN mcs /\ active_macro # None

\* a key-down of a macro whose instance is running
macro_already_running(s, key, mcs, active_macro) ==
    key \in DOMAIN mcs /\ active_macro # None /\ s.running[active_macro]

\* no key-down is taken for a duplicate
never_duplicate(s, key, k2c, type_code) == FALSE

\* a key-down of a mapped key whose input is already held
duplicate_key_down(s, key, k2c, type_code) ==
    key \in DOMAIN k2c /\ type_code \in unreleased_keys(s.unreleased)

\* the input that starts a macro is kept in unreleased like one that is
\* forwarded
start_macro_held(s, macro, type_code) ==
    [s EXCEPT !.active_macros = (type_code :> macro) @@ @,
              !.holding = press_key(@, macro),
              !.runs = Append(@, <<[macro |-> macro, pc |-> 0]>>),
              !.unreleased = unreleased_set(@, type_code, type_code,
                                            <<type_code[1], type_code[2], 1>>)]

\* the consumer makes the first write of the macro itself, before the run is
\* scheduled
start_macro_now(s, macro, type_code) ==
    LET task == MacroTable[macro].tasks[1]
        first == IF task.kind \in {"KEYSTROKE", "MODIFIER"}
                 THEN <<<<EV_KEY, task.code, task.value>>, SYN>> ELSE <<>>
    IN  [s EXCEPT !.active_macros = (type_code :> macro) @@ @,
                  !.holding = press_key(@, macro),
                  !.runs = Append(@, <<[macro |-> macro, pc |-> 0]>>),
                  !.out = @ \o first]

\* active_macros[type_code] = macro; macro.press_key();
\* asyncio.ensure_future(macro.run())
start_macro(s, macro, type_code) ==
    [s EXCEPT !.active_macros = (type_code :> macro) @@ @,
              !.holding = press_key(@, macro),
              !.runs = Append(@, <<[macro |-> macro, pc |-> 0]>>)]

\* inject_key that writes the value of the input event
inject_key_value(s, target_code, type_code, event_tuple) ==
    LET s1 == [s EXCEPT !.unreleased =
                  unreleased_set(@, type_code, <<EV_KEY, target_code>>, event_tuple)]
    IN  IF target_code = DISABLE_CODE THEN s1
        ELSE [s1 EXCEPT !.out = write(@, <<EV_KEY, target_code, event_tuple[3]>>)]

\* inject_key that does not look for DISABLE_CODE
inject_key_disabled_written(s, target_code, type_code, event_tuple) ==
    [s EXCEPT !.unreleased =
                  unreleased_set(@, type_code, <<EV_KEY, target_code>>, event_tuple),
              !.out = write(@, <<EV_KEY, target_code, 1>>)]

\* the event is mapped to target_code
inject_key(s, target_code, type_code, event_tuple) ==
    LET s1 == [s EXCEPT !.unreleased =
                  unreleased_set(@, type_code, <<EV_KEY, target_code>>, event_tuple)]
    IN  IF target_code = DISABLE_CODE THEN s1
        ELSE [s1 EXCEPT !.out = write(@, <<EV_KEY, target_code, 1>>)]

\* an event that is not mapped is written nowhere
forward_nowhere(s, type_code, event_tuple) ==
    [s EXCEPT !.unreleased = unreleased_set(@, type_code, type_code, event_tuple)]

\* the event is not mapped
forward(s, type_code, event_tuple) ==
    [s EXCEPT !.unreleased = unreleased_set(@, type_code, type_code, event_tuple),
              !.out = write(@, event_tuple)]

\* handle_keycode(key_to_code, macros, event, uinput) on the tracker state s
handle_keycode(k2c, mcs, event, s) ==
    IF is_hold_repeat(event) THEN s
    ELSE LET type_code == <<event[1], event[2]>>
             key == effective_key(k2c, mcs, s.unreleased, event)
             active_macro == active_macro_of(s.active_macros, type_code)
         IN  IF is_key_up(event) THEN release(s, type_code, active_macro)
             ELSE IF macro_already_running(s, key, mcs, active_macro) THEN s
             ELSE IF duplicate_key_down(s, key, k2c, type_code) THEN s
             ELSE IF key \in DOMAIN mcs THEN start_macro(s, mcs[key], type_code)
             ELSE IF key \in DOMAIN k2c
             THEN inject_key(s, k2c[key], type_code, event)
             ELSE forward(s, type_code, event)

----------------------------------------------------------------------------
\* _Macro.run on the event loop.  A run is the stack of run() calls it is in:
\* frames [macro, pc], pc the task to execute next, the innermost call last.
\* pc = 0: scheduled by ensure_future, run() has not started executing.

\* KeycodeInjector._macro_write: the handler of every macro of the node
macro_write(history, code, value) == history \o <<<<EV_KEY, code, value>>, SYN>>

set_top(stack, frame) == [stack EXCEPT ![Len(stack)] = frame]

pop(stack) == SubSeq(stack, 1, Len(stack) - 1)

RECURSIVE run_until_await(_, _, _)
\* Executes the run from where it is until it awaits a sleep or returns.
\* s carries running, holding, handler and out.
run_until_await(stack, s, fuel) ==
    IF stack = <<>> \/ fuel = 0 THEN [stack |-> stack, s |-> s]
    ELSE
    LET top == stack[Len(stack)]
        tasks == MacroTable[top.macro].tasks
        next == set_top(stack, [top EXCEPT !.pc = @ + 1])
    IN  IF top.pc > Len(tasks)
        THEN \* "done": self.running = False, run() returns to its caller
             LET s1 == [s EXCEPT !.running[top.macro] = FALSE]
                 rest == pop(stack)
             IN  IF rest = <<>> THEN [stack |-> <<>>, s |-> s1]
                 ELSE LET caller == rest[Len(rest)]
                          call == MacroTable[caller.macro].tasks[caller.pc]
                      IN  IF call.kind = "REPEAT"
                          THEN \* hold: back to `while self.holding`
                               run_until_await(rest, s1, fuel - 1)
                          ELSE run_until_await(
                                 set_top(rest, [caller EXCEPT !.pc = @ + 1]),
                                 s1, fuel - 1)
        ELSE
        LET task == tasks[top.pc]
            enter(child) ==
                run_until_await(Append(stack, [macro |-> child, pc |-> 1]),
                                [s EXCEPT !.running[child] = TRUE], fuel - 1)
        IN  CASE task.kind \in {"KEYSTROKE", "MODIFIER"} ->
                   \* self.handler(code, value)
                   run_until_await(next,
                       IF s.handler[top.macro] = MACRO_WRITE
                       THEN [s EXCEPT !.out = macro_write(@, task.code, task.value)]
                       ELSE s,
                       fuel - 1)
              [] task.kind = "SLEEP" -> [stack |-> next, s |-> s]
              [] task.kind = "CHILD_MACRO" -> enter(task.macro)
              [] task.kind = "REPEAT" ->
                   IF s.holding[top.macro] THEN enter(task.macro)
                   ELSE run_until_await(next, s, fuel - 1)

\* the event loop gives control to a run: it starts (self.running = True) or
\* resumes after its sleep
resume(stack, s) ==
    IF stack[1].pc = 0
    THEN run_until_await(<<[macro |-> stack[1].macro, pc |-> 1]>>,
                         [s EXCEPT !.running[stack[1].macro] = TRUE], ExecFuel)
    ELSE run_until_await(stack, s, ExecFuel)

----------------------------------------------------------------------------
\* keymapper/dev/event_producer.py: deferred calls

\* debounce(id, func, args, ticks): a pending entry of the same id is replaced
debounce(pending, id, event, ticks) ==
    LET entry == [id |-> id, event |-> event, ticks |-> ticks]
    IN  IF \E i \in 1..Len(pending) : pending[i].id = id
        THEN [i \in 1..Len(pending) |->
                IF pending[i].id = id THEN entry ELSE pending[i]]
        ELSE Append(pending, entry)

\* every pending entry one tick further
count_down(pending) ==
    [i \in 1..Len(pending) |-> [pending[i] EXCEPT !.ticks = @ - 1]]

RECURSIVE fire_due(_, _, _, _, _)
\* the calls that are due, handle_keycode(key_to_code, macros, event, uinput),
\* in the order of the list
fire_due(pending, i, k2c, mcs, acc) ==
    IF i > Len(pending) THEN acc
    ELSE IF pending[i].ticks <= 0
    THEN fire_due(pending, i + 1, k2c, mcs,
            [s |-> handle_keycode(k2c, mcs, pending[i].event, acc.s),
             fired |-> Append(acc.fired, pending[i].event)])
    ELSE fire_due(pending, i + 1, k2c, mcs, acc)

\* EventProducer.is_handled: joystick movements the producer turns into
\* pointer or wheel movements
is_handled(event) ==
    /\ event[1] = EV_ABS
    /\ \/ event[2] \in {ABS_X, ABS_Y} /\ l_purpose \in {MOUSE, WHEEL}
       \/ event[2] \in {ABS_RX, ABS_RY} /\ r_purpose \in {MOUSE, WHEEL}

----------------------------------------------------------------------------
\* The KeycodeInjector and its worker process

\* the message that stops the worker
CLOSE == 0
\* some message that is not CLOSE
OtherMessages == {1}

\* get_devices()[self.device]['paths']: the event nodes of the device
Paths == {1, 2}

\* the coroutines of the worker
event_consumer_of(p) == <<"_event_consumer", p>>
msg_listener_task == <<"_msg_listener">>
event_producer_run == <<"EventProducer.run">>

\* the worker has not been started, is in the loop over the paths, is in the
\* grab loop of a path, runs the event loop, has returned
Positions == {"not started", "for path", "grab", "run_until_complete", "returned"}

\* the worker's process is alive
is_alive == pc \notin {"not started", "returned"}

\* an injector that was not stopped may start again
must_raise_if_stopped(is_stopped, a_process) == is_stopped

\* `if self.stopped or self._process is not None`
must_raise(is_stopped, a_process) == is_stopped \/ a_process # None

\* a desktop: xset q works (it does not in a tty), numlockx works (it is
\* not installed everywhere), grabbing a device can change NumLock
Desktops == [xset : BOOLEAN, numlockx : BOOLEAN, grab_toggles : BOOLEAN]

\* a desktop with both tools on which a grab leaves NumLock alone
Calm == [xset |-> TRUE, numlockx |-> TRUE, grab_toggles |-> FALSE]

a_desktop(d, led) == desktop = d /\ numlock = led

\* is_numlock_on(): "on" for True, "off" for False, None in a tty
is_numlock_on(led, d) == IF d.xset THEN led ELSE None

\* set_numlock that does not look for None: numlockx is called with off
set_numlock_of_None(led, state, d) ==
    IF ~d.numlockx THEN led ELSE IF state = None THEN "off" ELSE state

\* set_numlock(state): the NumLock state it leaves
set_numlock(led, state, d) ==
    IF state = None THEN led
    ELSE IF d.numlockx THEN state
    ELSE led

\* ensure_numlock(func)(): func leaves NumLock as left; the record of the call
ensure_numlock(led, left, d) ==
    LET numlock_before == is_numlock_on(led, d)
    IN  [began |-> led, before |-> numlock_before, left |-> left,
         returned |-> set_numlock(left, numlock_before, d)]

start_injecting ==
    /\ starts < MaxStarts
    /\ starts' = starts + 1
    /\ IF must_raise(stopped, process)
       THEN /\ raised' = raised + 1
            /\ UNCHANGED <<process, pc, path, created, numlock_state>>
       ELSE IF ~device_known
       THEN UNCHANGED <<raised, process, pc, path, created, numlock_state>>
       ELSE /\ process' = "Process"
            /\ created' = created + 1
            /\ pc' = "for path"
            /\ path' = 1
            \* the worker begins: numlock_state = is_numlock_on()
            /\ numlock_state' = is_numlock_on(numlock, desktop)
            /\ UNCHANGED raised
    /\ UNCHANGED <<stopped, msg_pipe, device_known, nodes, attempts, grabbed,
                   uinputs, uinput_events, coroutines, loop_tasks, ended_by, grab_calls,
                   sleeps, received, reads, numlock, desktop, ensured>>
    /\ UNCHANGED <<tracker_vars, table_vars, classified>>

in_flight == Len(msg_pipe) + Len(received)

\* @ensure_numlock stop_injecting: the function itself leaves NumLock alone
stop_injecting ==
    /\ in_flight < MaxMsgs
    /\ msg_pipe' = Append(msg_pipe, CLOSE)
    /\ stopped' = TRUE
    /\ ensured' = Append(ensured, ensure_numlock(numlock, numlock, desktop))
    /\ numlock' = ensure_numlock(numlock, numlock, desktop).returned
    /\ UNCHANGED <<desktop, numlock_state>>
    /\ UNCHANGED <<process, device_known, nodes, pc, path, attempts, grabbed,
                   uinputs, uinput_events, coroutines, loop_tasks, ended_by, created, starts,
                   raised, grab_calls, sleeps, received, reads>>
    /\ UNCHANGED <<tracker_vars, table_vars, classified>>

\* the holder of the other end of the pipe sends something else
send(msg) ==
    /\ in_flight < MaxMsgs
    /\ msg_pipe' = Append(msg_pipe, msg)
    /\ UNCHANGED <<stopped, process, device_known, nodes, pc, path, attempts,
                   grabbed, uinputs, uinput_events, coroutines, loop_tasks, ended_by, created,
                   starts, raised, grab_calls, sleeps, received, reads>>
    /\ UNCHANGED <<tracker_vars, table_vars, classified, numlock_vars>>

Send == \E msg \in OtherMessages : send(msg)

\* A node of the device: whether evdev.InputDevice(path) finds it, its
\* capabilities(absinfo=False) as a dict from the event type to the codes
\* (a list in the code, of which the model keeps the members), what
\* map_abs_to_rel makes of them, and how often a grab of it fails.
a_node(does_exist, capabilities, abs_to_rel, busy) ==
    [exists |-> does_exist, capabilities |-> capabilities,
     abs_to_rel |-> abs_to_rel, busy |-> busy]

\* capabilities.get(type, [])
get_codes(capabilities, type) ==
    IF type \in DOMAIN capabilities THEN capabilities[type] ELSE {}

\* the code of a sub-key is looked for under every event type
is_code_in_capabilities(key, capabilities) ==
    \E i \in 1..Len(key), type \in DOMAIN capabilities :
        key[i][2] \in capabilities[type]

\* is_in_capabilities(key, capabilities)
is_in_capabilities(key, capabilities) ==
    \E i \in 1..Len(key) : key[i][2] \in get_codes(capabilities, key[i][1])

\* getdevices.map_abs_to_rel(capabilities), as the node has it
map_abs_to_rel(node) == node.abs_to_rel

\* `needed` of _prepare_device
is_needed(mapping, node) ==
    \/ \E i \in 1..Len(mapping) :
          is_in_capabilities(mapping[i][1], node.capabilities)
    \/ map_abs_to_rel(node)

\* _prepare_device gets as far as its grab loop
is_to_grab(mapping, node) == node.exists /\ is_needed(mapping, node)

\* capabilities[type] = codes
with_codes(capabilities, type, codes) == (type :> codes) @@ capabilities

\* `if type in capabilities: del capabilities[type]`
without(capabilities, type) ==
    [other \in DOMAIN capabilities \ {type} |-> capabilities[other]]

\* the codes of key_to_code that are added
injected_codes(k2c) == {k2c[key] : key \in DOMAIN k2c} \ {DISABLE_CODE}

\* EV_ABS stays where no joystick is mapped to the mouse
strip_unless_abs_to_rel(capabilities, abs_to_rel) ==
    LET stripped == without(without(capabilities, EV_SYN), EV_FF)
    IN  IF abs_to_rel THEN without(stripped, EV_ABS) ELSE stripped

\* EV_ABS stays where there are no keys
strip_where_keys(capabilities, abs_to_rel) ==
    LET stripped == without(without(capabilities, EV_SYN), EV_FF)
    IN  IF EV_KEY \in DOMAIN capabilities THEN without(stripped, EV_ABS)
        ELSE stripped

\* the end of _modify_capabilities: EV_SYN, EV_FF and EV_ABS are deleted
strip(capabilities, abs_to_rel) ==
    without(without(without(capabilities, EV_SYN), EV_FF), EV_ABS)

\* no mouse capabilities are added
as_mouse_never(capabilities, abs_to_rel) == capabilities

\* `if abs_to_rel`: the capabilities of a mouse
as_mouse(capabilities, abs_to_rel) ==
    IF abs_to_rel
    THEN LET moving == with_codes(capabilities, EV_REL,
                                  {REL_X, REL_Y, REL_WHEEL, REL_HWHEEL})
             keyed == IF EV_KEY \in DOMAIN moving THEN moving
                      ELSE with_codes(moving, EV_KEY, {})
         IN  [keyed EXCEPT ![EV_KEY] = @ \cup {BTN_MOUSE}]
    ELSE capabilities

\* KeycodeInjector._modify_capabilities(macros, input_device, abs_to_rel),
\* for macros that are all _Macro objects
modify_capabilities(k2c, mcs, capabilities, abs_to_rel) ==
    LET used == DOMAIN k2c # {} \/ DOMAIN mcs # {}
        keyed == IF used /\ EV_KEY \notin DOMAIN capabilities
                 THEN with_codes(capabilities, EV_KEY, {})
                 ELSE capabilities
        mapped == IF DOMAIN k2c = {} THEN keyed
                  ELSE [keyed EXCEPT ![EV_KEY] = @ \cup injected_codes(k2c)]
        written == IF DOMAIN mcs = {} THEN mapped
                   ELSE [mapped EXCEPT ![EV_KEY] = @ \cup
                           UNION {get_capabilities(mcs[key]) : key \in DOMAIN mcs}]
    IN  strip(as_mouse(written, abs_to_rel), abs_to_rel)

\* no macro has a handler
no_handlers == [macro \in MacroIds |-> NO_HANDLER]

RECURSIVE set_handlers(_, _, _)
\* `for macro in macros.values(): macro.set_handler(handler)`
set_handlers(handlers, mcs, keys) ==
    IF keys = {} THEN handlers
    ELSE LET key == CHOOSE key \in keys : TRUE
         IN  set_handlers(set_handler(handlers, mcs[key], MACRO_WRITE), mcs,
                          keys \ {key})

\* _prepare_device up to its grab loop: a path that cannot be opened or whose
\* capabilities the mapping does not need yields no source
prepare_device ==
    /\ pc = "for path"
    /\ path \in Paths
    /\ IF is_to_grab(custom_mapping, nodes[path])
       THEN /\ pc' = "grab"
            /\ attempts' = 0
            /\ UNCHANGED path
       ELSE /\ path' = path + 1
            /\ UNCHANGED <<pc, attempts>>
    /\ UNCHANGED <<stopped, process, msg_pipe, device_known, nodes, grabbed,
                   uinputs, uinput_events, coroutines, loop_tasks, ended_by, created, starts,
                   raised, grab_calls, sleeps, received, reads>>
    /\ UNCHANGED <<tracker_vars, table_vars, classified, numlock_vars>>

\* the worker returns: the event loop drives nothing any more
returns(reason) ==
    /\ pc' = "returned"
    /\ loop_tasks' = {}
    /\ ended_by' = reason

\* device.grab() raises IOError while the node is in use
grab_fails(p) == grab_calls[p] < nodes[p].busy

\* one attempt more before the node is given up
gives_up_after_5(failed) == failed >= 5

\* `if attempts >= 4`
gives_up(failed) == failed >= 4

\* one iteration of the grab loop of _prepare_device; with the source
\* grabbed, the rest of the iteration of `for path in paths`: the macros,
\* the uinput and the consumer of the node
grab ==
    /\ pc = "grab"
    /\ grab_calls' = [grab_calls EXCEPT ![path] = @ + 1]
    /\ IF grab_fails(path)
       THEN /\ attempts' = attempts + 1
            /\ IF gives_up(attempts + 1)
               THEN /\ pc' = "for path"
                    /\ path' = path + 1
                    /\ UNCHANGED sleeps
               ELSE /\ sleeps' = [sleeps EXCEPT ![path] = @ + 1]
                    /\ UNCHANGED <<pc, path>>
            /\ UNCHANGED <<grabbed, macros, handler, uinputs, uinput_events,
                           coroutines, loop_tasks, ended_by, numlock>>
       ELSE /\ grabbed' = grabbed \cup {path}
            /\ IF desktop.grab_toggles THEN numlock' \in {"on", "off"}
               ELSE UNCHANGED numlock
            /\ macros' = parse_macros(custom_mapping)
            /\ UNCHANGED <<attempts, sleeps>>
            /\ IF no_macro_objects(macros') # {}
               THEN \* macro.get_capabilities() of a str: the AttributeError
                    \* leaves _start_injecting
                    /\ returns([by |-> "AttributeError", node |-> path])
                    /\ UNCHANGED <<path, handler, uinputs, uinput_events,
                                   coroutines>>
               ELSE /\ uinputs' = uinputs \cup {path}
                    /\ uinput_events' = (path :>
                          modify_capabilities(key_to_code, macros',
                              nodes[path].capabilities,
                              map_abs_to_rel(nodes[path]))) @@ uinput_events
                    /\ handler' = set_handlers(handler, macros', DOMAIN macros')
                    /\ coroutines' = Append(coroutines, event_consumer_of(path))
                    /\ pc' = "for path"
                    /\ path' = path + 1
                    /\ UNCHANGED <<loop_tasks, ended_by>>
    /\ UNCHANGED <<stopped, process, msg_pipe, device_known, nodes, created,
                   starts, raised, received, reads, desktop, numlock_state,
                   ensured>>
    /\ UNCHANGED <<tracker_vars, cfg, key_to_code, custom_mapping, classified>>

\* nothing to run unless every node was grabbed
nothing_to_run_unless_all(the_coroutines) == Len(the_coroutines) < Cardinality(Paths)

\* `if len(coroutines) == 0`
nothing_to_run(the_coroutines) == Len(the_coroutines) = 0

\* after the loop over the paths: return, or run the consumers, the listener
\* and the producer until complete
gather ==
    /\ pc = "for path"
    /\ path \notin Paths
    /\ IF nothing_to_run(coroutines)
       THEN /\ returns([by |-> "Did not grab any device", node |-> 0])
            /\ UNCHANGED <<coroutines, numlock>>
       ELSE LET all == coroutines \o <<msg_listener_task, event_producer_run>>
            IN  /\ coroutines' = all
                /\ numlock' = set_numlock(numlock, numlock_state, desktop)
                /\ loop_tasks' = {all[i] : i \in 1..Len(all)}
                /\ pc' = "run_until_complete"
                /\ UNCHANGED ended_by
    /\ UNCHANGED <<stopped, process, msg_pipe, device_known, nodes, path,
                   attempts, grabbed, uinputs, uinput_events, created, starts, raised,
                   grab_calls, sleeps, received, reads, desktop, numlock_state,
                   ensured>>
    /\ UNCHANGED <<tracker_vars, table_vars, classified>>

\* every message stops the loop
is_any_message(msg) == TRUE

\* `if msg == CLOSE`
is_close(msg) == msg = CLOSE

\* one iteration of _msg_listener: loop.stop() makes run_until_complete
\* raise the RuntimeError that _start_injecting passes over
msg_listener ==
    /\ pc = "run_until_complete"
    /\ msg_listener_task \in loop_tasks
    /\ msg_pipe # <<>>
    /\ msg_pipe' = Tail(msg_pipe)
    /\ received' = Append(received, Head(msg_pipe))
    /\ IF is_close(Head(msg_pipe))
       THEN returns([by |-> "CLOSE", node |-> 0])
       ELSE UNCHANGED <<pc, loop_tasks, ended_by>>
    /\ UNCHANGED <<stopped, process, device_known, nodes, path, attempts,
                   grabbed, uinputs, uinput_events, coroutines, created, starts, raised,
                   grab_calls, sleeps, reads>>
    /\ UNCHANGED <<tracker_vars, table_vars, classified, numlock_vars>>

\* the consumer of a node can take an event
reading(p) ==
    /\ pc = "run_until_complete"
    /\ event_consumer_of(p) \in loop_tasks
    /\ reads < MaxReads

\* an iteration of the consumer's loop that reads an event and writes what
\* it has to write; what it writes is the matter of Spec
read_and_write(p) ==
    /\ reading(p)
    /\ reads' = reads + 1
    /\ UNCHANGED <<stopped, process, msg_pipe, device_known, nodes, pc, path,
                   attempts, grabbed, uinputs, uinput_events, coroutines, loop_tasks, ended_by,
                   created, starts, raised, grab_calls, sleeps, received>>
    /\ UNCHANGED <<tracker_vars, table_vars, classified, numlock_vars>>

\* an exception leaves a coroutine: asyncio.gather hands the first exception
\* to run_until_complete, which raises it; _start_injecting logs an OSError
\* and returns
raises_OSError(reason) ==
    /\ returns(reason)
    /\ UNCHANGED <<stopped, process, msg_pipe, device_known, nodes, path,
                   attempts, grabbed, uinputs, uinput_events, coroutines, created, starts,
                   raised, grab_calls, sleeps, received>>
    /\ UNCHANGED <<tracker_vars, table_vars, classified, numlock_vars>>

\* source.async_read_loop() raises OSError: the node is gone
read_error(p) ==
    /\ reading(p)
    /\ UNCHANGED reads
    /\ raises_OSError([by |-> "OSError reading", node |-> p])

\* the consumer reads an event and the uinput.write for it raises OSError
write_error(p) ==
    /\ reading(p)
    /\ reads' = reads + 1
    /\ raises_OSError([by |-> "OSError writing", node |-> p])

ReadAndWrite == \E p \in Paths : read_and_write(p)

ReadError == \E p \in Paths : read_error(p)

WriteError == \E p \in Paths : write_error(p)

\* no event was read yet
nothing_read ==
    /\ unreleased = <<>>
    /\ active_macros = <<>>
    /\ holding = [m \in MacroIds |-> FALSE]
    /\ running = [m \in MacroIds |-> FALSE]
    /\ runs = <<>>
    /\ debounces = <<>>
    /\ out = <<>>
    /\ inp = <<>>
    /\ stamps = <<>>
    /\ nread = 0
    /\ now = 0
    /\ calls = <<>>

\* the worker has not returned
not_ended == [by |-> "", node |-> 0]

\* KeycodeInjector.__init__, and the devices it will meet
new_injector ==
    /\ stopped = FALSE
    /\ process = None
    /\ msg_pipe = <<>>
    /\ pc = "not started"
    /\ path = 0
    /\ attempts = 0
    /\ grabbed = {}
    /\ uinputs = {}
    /\ uinput_events = <<>>
    /\ coroutines = <<>>
    /\ loop_tasks = {}
    /\ ended_by = not_ended
    /\ created = 0
    /\ starts = 0
    /\ raised = 0
    /\ grab_calls = [p \in Paths |-> 0]
    /\ sleeps = [p \in Paths |-> 0]
    /\ received = <<>>
    /\ reads = 0
    /\ numlock_state = None
    /\ ensured = <<>>

\* a keyboard with one key of the combination of the preset "combomacro",
\* or a keyboard with another key: a node nothing of which is needed is
\* never grabbed
Nodes ==
    [Paths -> {a_node(TRUE, EV_KEY :> {9}, FALSE, busy) : busy \in 0..MaxBusy}
                \cup {a_node(TRUE, EV_KEY :> {30}, FALSE, 0)}]

\* the capabilities of a node that sends the events
capabilities_of(events) ==
    [type \in {event[1] : event \in events} |->
        {event[2] : event \in {e \in events : e[1] = type}}]

\* the injector Spec follows: started, its first node grabbed at once, the
\* other node not needed, the event loop running
injecting ==
    /\ stopped = FALSE
    /\ process = "Process"
    /\ msg_pipe = <<>>
    /\ device_known = TRUE
    /\ nodes = [p \in Paths |->
                  IF p = 1
                  THEN a_node(TRUE, capabilities_of(Presets[cfg].events), FALSE, 0)
                  ELSE a_node(TRUE, <<>>, FALSE, 0)]
    /\ pc = "run_until_complete"
    /\ path = 3
    /\ attempts = 0
    /\ grabbed = {1}
    /\ uinputs = {1}
    /\ uinput_events = (1 :> modify_capabilities(key_to_code, macros,
                                capabilities_of(Presets[cfg].events), FALSE))
    /\ coroutines = <<event_consumer_of(1), msg_listener_task, event_producer_run>>
    /\ loop_tasks = {event_consumer_of(1), msg_listener_task, event_producer_run}
    /\ ended_by = not_ended
    /\ created = 1
    /\ starts = 1
    /\ raised = 0
    /\ grab_calls = [p \in Paths |-> IF p = 1 THEN 1 ELSE 0]
    /\ sleeps = [p \in Paths |-> 0]
    /\ received = <<>>
    /\ reads = 0
    /\ numlock_state = None
    /\ ensured = <<>>

----------------------------------------------------------------------------
\* An event on its way through the classifier: the event object, which the
\* classifier rewrites in place, what get_max_abs returns for its device,
\* the joystick purposes of the mapping, and the verdicts it got so far

nothing_classified ==
    [event |-> SYN, max_abs |-> <<>>, l_purpose |-> MOUSE, r_purpose |-> WHEEL,
     verdicts |-> <<>>]

Purposes == {BUTTONS, MOUSE, WHEEL, None}

TypesAndCodes ==
    {<<EV_SYN, SYN_REPORT>>, <<EV_KEY, 30>>, <<EV_REL, REL_X>>,
     <<EV_REL, REL_WHEEL>>, <<EV_REL, REL_HWHEEL>>, <<EV_ABS, ABS_X>>,
     <<EV_ABS, ABS_Y>>, <<EV_ABS, ABS_RX>>, <<EV_ABS, ABS_RY>>,
     <<EV_ABS, ABS_HAT0X>>, <<EV_ABS, MT_FIRST>>, <<EV_ABS, MT_LAST>>}

Events ==
    {<<type_code[1], type_code[2], value>> :
        type_code \in TypesAndCodes, value \in -MaxAbs..MaxAbs}

ClassifyInit ==
    /\ classified \in [event : Events,
                        max_abs : {<<>>} \cup {<<m>> : m \in 0..MaxAbs},
                        l_purpose : Purposes,
                        r_purpose : Purposes,
                        verdicts : {<<>>}]
    /\ cfg = "remap"
    /\ custom_mapping = Presets[cfg].mapping
    /\ key_to_code = map_keys_to_codes(custom_mapping)
    /\ macros = parse_macros(custom_mapping)
    /\ handler = set_handlers(no_handlers, macros, DOMAIN macros)
    /\ nothing_read
    /\ injecting
    /\ a_desktop(Calm, "off")

\* utils.should_map_event_as_btn(source, event, self.mapping) on the event
classify ==
    LET verdict == should_map_event_as_btn(classified.max_abs, classified.event,
                       classified.l_purpose, classified.r_purpose)
    IN  /\ Len(classified.verdicts) < MaxPasses
        /\ classified' = [classified EXCEPT !.event = verdict.event,
                                              !.verdicts = Append(@, verdict)]
        /\ UNCHANGED <<tracker_vars, table_vars, injector_vars>>

ClassifyNext == classify

Classify == ClassifyInit /\ [][ClassifyNext]_vars

----------------------------------------------------------------------------
\* The state machine: one source node, its consumer, the producer's ticks and
\* the macro runs on the event loop of the injector process

tracker == [unreleased |-> unreleased, active_macros |-> active_macros,
            holding |-> holding, running |-> running, runs |-> runs,
            out |-> out, handler |-> handler]

set_tracker(s) ==
    /\ unreleased' = s.unreleased
    /\ active_macros' = s.active_macros
    /\ holding' = s.holding
    /\ running' = s.running
    /\ runs' = s.runs
    /\ out' = s.out

Init ==
    /\ cfg \in PresetNames
    /\ custom_mapping = Presets[cfg].mapping
    /\ key_to_code = map_keys_to_codes(custom_mapping)
    /\ macros = parse_macros(custom_mapping)
    /\ handler = set_handlers(no_handlers, macros, DOMAIN macros)
    /\ nothing_read
    /\ injecting
    /\ classified = nothing_classified
    /\ a_desktop(Calm, "off")

\* the deferred event keeps the value of the wheel event
wheel_release_value(event) == <<event[1], event[2], event[3]>>

\* the up event the consumer defers for a wheel event:
\* evdev.InputEvent(0, 0, event.type, event.code, 0)
wheel_release(event) == <<event[1], event[2], 0>>

\* one iteration of `async for event in source.async_read_loop()`.
\* (notify caches joystick positions only; the nodes of the presets have no
\* joystick axes.)
event_consumer(raw) ==
    LET verdict == should_map_event_as_btn(max_abs, raw, l_purpose, r_purpose)
        event == verdict.event
    IN  /\ nread < MaxEvents
        /\ nread' = nread + 1
        /\ UNCHANGED <<cfg, key_to_code, macros, now>>
        /\ UNCHANGED <<custom_mapping, handler, injector_vars, classified, calls>>
        /\ IF verdict.btn
           THEN /\ set_tracker(handle_keycode(key_to_code, macros, event, tracker))
                /\ inp' = Append(inp, event)
                /\ stamps' = Append(stamps, now)
                /\ debounces' =
                     IF is_wheel(event)
                     THEN debounce(debounces, event, wheel_release(event),
                                   DEBOUNCE_TICKS)
                     ELSE debounces
           ELSE IF is_handled(event)
           THEN UNCHANGED <<unreleased, active_macros, holding, running, runs,
                            debounces, out, inp, stamps>>
           ELSE /\ out' = Append(out, event)
                /\ UNCHANGED <<unreleased, active_macros, holding, running,
                               runs, debounces, inp, stamps>>

Consume == \E raw \in Presets[cfg].events : event_consumer(raw)

\* One tick of EventProducer.run: the deferred calls.  A tick with nothing
\* pending changes nothing.
Tick ==
    LET counted == count_down(debounces)
        done == fire_due(counted, 1, key_to_code, macros,
                         [s |-> tracker, fired |-> <<>>])
    IN  /\ debounces # <<>>
        /\ debounces' = SelectSeq(counted, LAMBDA entry : entry.ticks > 0)
        /\ set_tracker(done.s)
        /\ inp' = inp \o done.fired
        /\ stamps' = stamps \o [i \in 1..Len(done.fired) |-> now + 1]
        /\ now' = now + 1
        /\ UNCHANGED <<cfg, key_to_code, macros, nread>>
        /\ UNCHANGED <<custom_mapping, handler, injector_vars, classified, calls>>

\* a run that takes its macro out of active_macros when it ends
macro_step_forget(i) ==
    LET done == resume(runs[i], tracker)
        ended == done.stack = <<>>
        kept == {type_code \in DOMAIN active_macros :
                    ~ended \/ active_macros[type_code] # runs[i][1].macro}
    IN  /\ Len(out) < MaxOut
        /\ set_tracker([done.s EXCEPT
              !.runs = IF ended
                       THEN SubSeq(runs, 1, i - 1) \o SubSeq(runs, i + 1, Len(runs))
                       ELSE [runs EXCEPT ![i] = done.stack],
              !.active_macros = [type_code \in kept |-> active_macros[type_code]]])
        /\ UNCHANGED <<cfg, key_to_code, macros, debounces, inp, stamps, nread, now>>
        /\ UNCHANGED <<custom_mapping, handler, injector_vars, classified, calls>>

\* the event loop runs one of the scheduled or sleeping macro runs
macro_step(i) ==
    LET done == resume(runs[i], tracker)
    IN  /\ Len(out) < MaxOut
        /\ set_tracker([done.s EXCEPT !.runs =
              IF done.stack = <<>>
              THEN SubSeq(runs, 1, i - 1) \o SubSeq(runs, i + 1, Len(runs))
              ELSE [runs EXCEPT ![i] = done.stack]])
        /\ UNCHANGED <<cfg, key_to_code, macros, debounces, inp, stamps, nread, now>>
        /\ UNCHANGED <<custom_mapping, handler, injector_vars, classified, calls>>

MacroStep == \E i \in 1..Len(runs) : macro_step(i)

Next == Consume \/ Tick \/ MacroStep

Spec == Init /\ [][Next]_vars

----------------------------------------------------------------------------
\* The life of an injector: the calls on the object, the messages to its
\* worker, the worker from its start to its return

LifecycleInit ==
    /\ new_injector
    /\ device_known \in BOOLEAN
    /\ nodes \in Nodes
    /\ cfg = "combomacro"
    /\ custom_mapping = Presets[cfg].mapping
    /\ key_to_code = map_keys_to_codes(custom_mapping)
    /\ macros = <<>>
    /\ handler = no_handlers
    /\ nothing_read
    /\ classified = nothing_classified
    /\ a_desktop(Calm, "off")

LifecycleNext ==
    \/ start_injecting
    \/ stop_injecting
    \/ Send
    \/ prepare_device
    \/ grab
    \/ gather
    \/ msg_listener
    \/ ReadAndWrite
    \/ ReadError
    \/ WriteError

Lifecycle == LifecycleInit /\ [][LifecycleNext]_vars

----------------------------------------------------------------------------
\* The compilation of a mapping: KeycodeInjector.__init__ compiles
\* key_to_code, the worker compiles the macros of every node it grabs

\* the sub-keys of test_key_to_code
SubKeys == {<<EV_KEY, 41, 1>>, <<EV_KEY, 42, 1>>, <<EV_KEY, 43, 1>>}

\* Keys of distinct sub-keys
Keys ==
    UNION {{key \in [1..n -> SubKeys] : \A i, j \in 1..n : i # j => key[i] # key[j]} :
              n \in 1..Cardinality(SubKeys)}

\* a known symbol, an unknown symbol, a macro
Outputs == {symbol("a"), symbol("b"), macro_code("qw")}

\* a Mapping holds a Key once
Mappings ==
    UNION {{mapping \in [1..n -> Keys \X Outputs] :
               \A i, j \in 1..n : i # j => mapping[i][1] # mapping[j][1]} :
              n \in 1..MaxMappings}

CompileInit ==
    /\ new_injector
    /\ device_known = TRUE
    /\ nodes \in [Paths -> {a_node(TRUE, EV_KEY :> {41, 42, 43}, FALSE, 0)}]
    /\ cfg = "custom"
    /\ custom_mapping \in Mappings
    /\ key_to_code = map_keys_to_codes(custom_mapping)
    /\ macros = <<>>
    /\ handler = no_handlers
    /\ nothing_read
    /\ classified = nothing_classified
    /\ a_desktop(Calm, "off")

CompileNext ==
    \/ start_injecting
    \/ prepare_device
    \/ grab
    \/ gather

Compile == CompileInit /\ [][CompileNext]_vars

----------------------------------------------------------------------------
\* The nodes of a device: which of them the worker grabs, and the
\* capabilities of the uinput it opens for a node it grabbed

\* a path without a node, a node without capabilities, keyboards, a mouse,
\* a node with an absolute axis of the code of a key, gamepads with and
\* without buttons; one keyboard cannot be grabbed
NodeKinds ==
    {a_node(FALSE, <<>>, FALSE, 0),
     a_node(TRUE, <<>>, FALSE, 0),
     a_node(TRUE, (EV_SYN :> {0, 1}) @@ (EV_KEY :> {41, 42}), FALSE, 0),
     a_node(TRUE, EV_KEY :> {41, 42}, FALSE, MaxBusy),
     a_node(TRUE, EV_KEY :> {42}, FALSE, 0),
     a_node(TRUE, EV_KEY :> {43}, FALSE, 0),
     a_node(TRUE, (EV_KEY :> {BTN_LEFT, 42}) @@ (EV_REL :> {REL_X, REL_Y}),
            FALSE, 0),
     a_node(TRUE, EV_ABS :> {41}, FALSE, 0),
     a_node(TRUE, (EV_SYN :> {0}) @@ (EV_FF :> {80})
                     @@ (EV_ABS :> {ABS_X, ABS_Y}), TRUE, 0),
     a_node(TRUE, (EV_SYN :> {0}) @@ (EV_KEY :> {43}) @@ (EV_FF :> {80})
                     @@ (EV_ABS :> {ABS_X, ABS_Y}), TRUE, 0),
     a_node(TRUE, (EV_SYN :> {0}) @@ (EV_KEY :> {41}) @@ (EV_FF :> {80})
                     @@ (EV_ABS :> {ABS_X, ABS_Y}), FALSE, 0)}

\* nothing mapped; a key and a combination mapped to a key; a key and an
\* axis mapped to a name that is no key; a disabled key beside a macro; a
\* key mapped to each of the texts of Code, beside a macro
PrepareMappings ==
    {<<>>,
     << <<Key1(<<EV_KEY, 41, 1>>), symbol("a")>> >>,
     << << <<<<EV_KEY, 41, 1>>, <<EV_KEY, 42, 1>>>>, symbol("a")>> >>,
     << <<Key1(<<EV_KEY, 41, 1>>), symbol("b")>> >>,
     << <<Key1(<<EV_ABS, 41, 1>>), symbol("b")>> >>,
     << <<Key1(<<EV_KEY, 41, 1>>), symbol("disable")>>,
        <<Key1(<<EV_KEY, 42, 1>>), macro_code("m_w")>> >>}
    \cup {<< <<Key1(<<EV_KEY, 41, 1>>), macro_code(id)>>,
              <<Key1(<<EV_KEY, 42, 1>>), macro_code("qw")>> >> :
             id \in DOMAIN Code}

PrepareInit ==
    /\ new_injector
    /\ device_known = TRUE
    /\ nodes \in [Paths -> NodeKinds]
    /\ cfg = "custom"
    /\ custom_mapping \in PrepareMappings
    /\ key_to_code = map_keys_to_codes(custom_mapping)
    /\ macros = <<>>
    /\ handler = no_handlers
    /\ nothing_read
    /\ classified = nothing_classified
    /\ a_desktop(Calm, "off")

PrepareNext ==
    \/ start_injecting
    \/ prepare_device
    \/ grab
    \/ gather

Prepare == PrepareInit /\ [][PrepareNext]_vars

----------------------------------------------------------------------------
\* A macro in the hands of the code that drives it (the tracker, the tests
\* of test_macros.py): parse, then set_handler, press_key, release_key and
\* asyncio.ensure_future(macro.run()) in any order, and the event loop

\* the texts parse builds a _Macro of
Parsed == {id \in DOMAIN Code : parse(Code[id], FALSE).type = "_Macro"}

MacrosInit ==
    /\ cfg \in Parsed
    /\ custom_mapping = <<>>
    /\ key_to_code = <<>>
    /\ macros = <<>>
    /\ handler = no_handlers
    /\ nothing_read
    /\ new_injector
    /\ device_known = TRUE
    /\ nodes = [p \in Paths |-> a_node(FALSE, <<>>, FALSE, 0)]
    /\ classified = nothing_classified
    /\ a_desktop(Calm, "off")

\* a call on the macro that leaves the event loop alone
called(name) ==
    /\ Len(calls) < MaxCalls
    /\ calls' = Append(calls, name)
    /\ UNCHANGED <<unreleased, active_macros, debounces, out, inp, stamps,
                   nread, now>>
    /\ UNCHANGED <<cfg, key_to_code, macros, custom_mapping, injector_vars,
                   classified>>

\* macro.set_handler(handler)
SetHandler ==
    /\ called("set_handler")
    /\ handler' = set_handler(handler, cfg, MACRO_WRITE)
    /\ UNCHANGED <<holding, running, runs>>

\* macro.press_key()
PressKey ==
    /\ called("press_key")
    /\ holding' = press_key(holding, cfg)
    /\ UNCHANGED <<handler, running, runs>>

\* macro.release_key()
ReleaseKey ==
    /\ called("release_key")
    /\ holding' = release_key(holding, cfg)
    /\ UNCHANGED <<handler, running, runs>>

\* asyncio.ensure_future(macro.run()), or loop.run_until_complete(macro.run()),
\* once the run before it is over
EnsureFuture ==
    /\ called("run")
    /\ runs = <<>>
    /\ runs' = <<<<[macro |-> cfg, pc |-> 0]>>>>
    /\ UNCHANGED <<handler, holding, running>>

\* the event loop starts the run or resumes it after its sleep.  The uinput
\* history is followed up to MaxOut writes while the key is held down.
RunStep ==
    LET done == resume(runs[1], tracker)
    IN  /\ runs # <<>>
        /\ holding[cfg] => Len(out) < MaxOut
        /\ out' = done.s.out
        /\ running' = done.s.running
        /\ runs' = IF done.stack = <<>> THEN <<>> ELSE <<done.stack>>
        /\ UNCHANGED <<unreleased, active_macros, holding, debounces, inp,
                       stamps, nread, now, calls>>
        /\ UNCHANGED <<table_vars, injector_vars, classified>>

MacrosNext ==
    \/ SetHandler
    \/ PressKey
    \/ ReleaseKey
    \/ EnsureFuture
    \/ RunStep

Macros == MacrosInit /\ [][MacrosNext]_vars

\* the event loop resumes a coroutine whose sleep is over
MacrosFair == Macros /\ WF_vars(RunStep)

----------------------------------------------------------------------------
\* NumLock: an injector on any desktop, with NumLock on or off, and the
\* wrapped functions of test_numlock beside stop_injecting

\* a keyboard with the mapped key, one that cannot be grabbed at once, and a
\* keyboard without the mapped key
NumlockNodes ==
    {a_node(TRUE, EV_KEY :> {41}, FALSE, 0),
     a_node(TRUE, EV_KEY :> {41}, FALSE, 1),
     a_node(TRUE, EV_KEY :> {43}, FALSE, 0)}

NumlockInit ==
    /\ new_injector
    /\ device_known = TRUE
    /\ nodes \in [Paths -> NumlockNodes]
    /\ cfg = "custom"
    /\ custom_mapping = << <<Key1(<<EV_KEY, 41, 1>>), symbol("a")>> >>
    /\ key_to_code = map_keys_to_codes(custom_mapping)
    /\ macros = <<>>
    /\ handler = no_handlers
    /\ nothing_read
    /\ classified = nothing_classified
    /\ \E d \in Desktops, led \in {"on", "off"} : a_desktop(d, led)

\* a function wrapped by ensure_numlock that leaves NumLock on or off, as
\* wrapped_1 and wrapped_2 of test_numlock do
wrapped(left) ==
    /\ Len(ensured) < MaxEnsured
    /\ ensured' = Append(ensured, ensure_numlock(numlock, left, desktop))
    /\ numlock' = ensure_numlock(numlock, left, desktop).returned
    /\ UNCHANGED <<stopped, process, msg_pipe, device_known, nodes, pc, path,
                   attempts, grabbed, uinputs, uinput_events, coroutines,
                   loop_tasks, ended_by, created, starts, raised, grab_calls,
                   sleeps, received, reads, desktop, numlock_state>>
    /\ UNCHANGED <<tracker_vars, table_vars, classified>>

Wrapped == \E left \in {"on", "off"} : wrapped(left)

NumlockNext ==
    \/ start_injecting
    \/ prepare_device
    \/ grab
    \/ gather
    \/ stop_injecting
    \/ Wrapped

Numlock == NumlockInit /\ [][NumlockNext]_vars

----------------------------------------------------------------------------
\* Vocabulary of the properties

Last(seq) == seq[Len(seq)]

Count(seq, x) == Cardinality({i \in 1..Len(seq) : seq[i] = x})

TypeCode(event) == <<event[1], event[2]>>

\* the events of the history that count as presses and releases of an input
\* (all but the button-hold repeats)
Edges(history, type_code) ==
    SelectSeq(history, LAMBDA e : TypeCode(e) = type_code /\ ~is_hold_repeat(e))

\* the input's up event was the last that was heard of it (or nothing was)
Released(type_code) ==
    LET edges == Edges(inp, type_code)
    IN  edges = <<>> \/ is_key_up(Last(edges))

\* the downs of an input since its last up
Pressed(history, type_code) ==
    LET edges == Edges(history, type_code)
        ups == {i \in 1..Len(edges) : is_key_up(edges[i])}
        \* highest index of an up, 0 without one
        from == IF ups = {} THEN 0 ELSE CHOOSE i \in ups : \A j \in ups : j <= i
    IN  SubSeq(edges, from + 1, Len(edges))

\* the (type, code) the tracker or a macro wrote an event of: keys, and what
\* was forwarded of the inputs handed to the tracker
Written ==
    {TypeCode(out[i]) : i \in 1..Len(out)}
        \cap ({TypeCode(inp[i]) : i \in 1..Len(inp)}
                \cup {<<EV_KEY, SystemMapping[name]>> : name \in DOMAIN SystemMapping})

Downs(type_code) ==
    Cardinality({i \in 1..Len(out) : TypeCode(out[i]) = type_code
                                     /\ is_key_down(out[i])})

Ups(type_code) ==
    Cardinality({i \in 1..Len(out) : TypeCode(out[i]) = type_code
                                     /\ is_key_up(out[i])})

----------------------------------------------------------------------------
\* every input is up, every macro has finished, no deferred call is pending
C1_AllReleased ==
    /\ \A i \in 1..Len(inp) : Released(TypeCode(inp[i]))
    /\ runs = <<>>
    /\ debounces = <<>>

\* C1: once every pressed input has received its up event, every macro has
\* finished and no deferred call is pending, the output holds as many down
\* events as up events of every (type, code).  A down is an event of value
\* other than 0 (is_key_down), which covers the forwarded -1 of a directional
\* input as well as the value 1 of the claim.
C1_DownsEqualUps ==
    C1_AllReleased => \A type_code \in Written : Downs(type_code) = Ups(type_code)

\* C3: no macro instance has two run() executions in progress at once
C3_OneRunPerMacro ==
    \A i, j \in 1..Len(runs) :
        (i # j /\ runs[i][1].pc > 0 /\ runs[j][1].pc > 0)
            => runs[i][1].macro # runs[j][1].macro

\* the combination (A, B, C) -> x of the preset combo3
C2_A == <<EV_KEY, 1, 1>>

C2_B == <<EV_KEY, 2, 1>>

C2_C == <<EV_KEY, 3, 1>>

C2_X == <<EV_KEY, SystemMapping["x"], 1>>

\* the history is a sequence of presses of different keys of the combination
C2_Presses ==
    /\ cfg = "combo3"
    /\ \A i \in 1..Len(inp) : inp[i] \in {C2_A, C2_B, C2_C}
    /\ \A i, j \in 1..Len(inp) : i # j => inp[i] # inp[j]

\* C2: with (A, B, C) -> x mapped and nothing held, three presses of A, B and
\* C write exactly one down of x if C is pressed last and none otherwise (nor
\* do fewer presses)
C2_TriggerLast ==
    C2_Presses =>
        Count(out, C2_X) = IF Len(inp) = 3 /\ inp[3] = C2_C THEN 1 ELSE 0

C2_Witness ==
    /\ C2_Presses
    /\ inp = <<C2_B, C2_A, C2_C>>
    /\ Count(out, C2_X) = 1

----------------------------------------------------------------------------
\* The single keys of the preset that are mapped to a keycode
SingleMapped == {key \in DOMAIN key_to_code : Len(key) = 1}

\* the tracker handles event in this step
Handles(event) == inp' = Append(inp, event)

\* what C4 says of one step
C4_Step ==
    \A key \in SingleMapped :
        LET K == key[1]
            c == key_to_code[key]
            up == <<K[1], K[2], 0>>
        IN  c # DISABLE_CODE =>
            /\ (Handles(K) /\ Released(TypeCode(K)))
                  => out' = out \o <<<<EV_KEY, c, 1>>, SYN>>
            /\ (/\ Handles(up)
                /\ Pressed(inp, TypeCode(K)) # <<>>
                /\ \A i \in DOMAIN Pressed(inp, TypeCode(K)) :
                      Pressed(inp, TypeCode(K))[i] = K)
                  => out' = out \o <<<<EV_KEY, c, 0>>, SYN>>

\* C4: the first down of a single key K mapped to c writes (EV_KEY, c, 1), and
\* the up that follows downs of K only writes (EV_KEY, c, 0), whatever the
\* type of K and the sign of its value
C4_MappedDownUp == [][C4_Step]_vars

C4_Witness ==
    /\ cfg = "dpad"
    /\ inp = <<<<EV_ABS, ABS_HAT0X, -1>>, <<EV_ABS, ABS_HAT0X, 0>>>>
    /\ out = <<<<EV_KEY, 100, 1>>, SYN, <<EV_KEY, 100, 0>>, SYN>>

----------------------------------------------------------------------------
\* the event the tracker handles in this step, if it handles exactly one
Handled == inp'[Len(inp')]

HandlesOne == Len(inp') = Len(inp) + 1 /\ SubSeq(inp', 1, Len(inp)) = inp

\* a duplicate down changes nothing
C5_Step ==
    (/\ HandlesOne
     /\ is_key_down(Handled)
     /\ effective_key(key_to_code, macros, unreleased, Handled)
            \in DOMAIN key_to_code
     /\ TypeCode(Handled) \in unreleased_keys(unreleased))
        => UNCHANGED <<out, unreleased, active_macros>>

\* the history is n >= 1 downs of the key and then its up
C5_Downs(key) ==
    /\ Len(inp) >= 2
    /\ \A i \in 1..(Len(inp) - 1) : inp[i] = key[1]
    /\ Last(inp) = <<key[1][1], key[1][2], 0>>

C5_Inv ==
    \A key \in SingleMapped :
        (key_to_code[key] # DISABLE_CODE /\ C5_Downs(key)) =>
            /\ Count(out, <<EV_KEY, key_to_code[key], 1>>) = 1
            /\ Count(out, <<EV_KEY, key_to_code[key], 0>>) = 1

\* C5: a down whose effective Key maps to a keycode while its (type, code) is
\* in unreleased writes nothing and leaves unreleased and active_macros as
\* they are; so n >= 1 downs of a mapped key and then its up write one down
\* and one up of the target
C5_DuplicateDownDropped == [][C5_Step]_vars /\ []C5_Inv

C5_Witness ==
    /\ cfg = "remap"
    /\ inp = <<<<EV_KEY, 30, 1>>, <<EV_KEY, 30, 1>>, <<EV_KEY, 30, 0>>>>
    /\ out = <<<<EV_KEY, 100, 1>>, SYN, <<EV_KEY, 100, 0>>, SYN>>

\* C6: an input whose up event was handled has no entry in unreleased
C6_NoEntryAfterUp ==
    \A i \in 1..Len(inp) :
        Released(TypeCode(inp[i]))
            => TypeCode(inp[i]) \notin unreleased_keys(unreleased)

C6_Witness ==
    /\ cfg = "dpad"
    /\ inp = <<<<EV_ABS, ABS_HAT0X, -1>>, <<EV_KEY, 40, 1>>, <<EV_KEY, 40, 0>>>>
    /\ unreleased_keys(unreleased) = {<<EV_ABS, ABS_HAT0X>>}

\* the input and the macro output of the preset combomacro
C7_Input == <<<<EV_KEY, 8, 1>>, <<EV_KEY, 9, 1>>, <<EV_KEY, 8, 0>>, <<EV_KEY, 9, 0>>>>

C7_Macro == <<<<EV_KEY, 101, 1>>, <<EV_KEY, 101, 0>>,
              <<EV_KEY, 102, 1>>, <<EV_KEY, 102, 0>>>>

IsPrefix(p, seq) == Len(p) <= Len(seq) /\ p = SubSeq(seq, 1, Len(p))

OfCodes(history, codes) ==
    SelectSeq(history, LAMBDA e : e # SYN /\ e[2] \in codes)

\* C7: (A, B) -> k(KEY_Q).k(w) and the input A down, B down, A up, B up: the
\* events of A are forwarded as they come, no event of B is written, and the
\* macro writes q down, q up, w down, w up in this order, all of it once the
\* macro has finished
C7_CombinationMacro ==
    (cfg = "combomacro" /\ IsPrefix(inp, C7_Input)) =>
        /\ OfCodes(out, {8}) = OfCodes(inp, {8})
        /\ OfCodes(out, {9}) = <<>>
        /\ IsPrefix(OfCodes(out, {101, 102}), C7_Macro)
        /\ Len(inp) < 2 => OfCodes(out, {101, 102}) = <<>>
        /\ (inp = C7_Input /\ runs = <<>>) => OfCodes(out, {101, 102}) = C7_Macro

\* the macro's first keystroke comes between the down and the up of A
C7_Witness ==
    /\ cfg = "combomacro"
    /\ inp = C7_Input
    /\ runs = <<>>
    /\ SelectSeq(out, LAMBDA e : e # SYN)
         = <<<<EV_KEY, 8, 1>>, <<EV_KEY, 101, 1>>, <<EV_KEY, 8, 0>>,
             <<EV_KEY, 101, 0>>, <<EV_KEY, 102, 1>>, <<EV_KEY, 102, 0>>>>

\* the down and the up of a disabled key, in one step
C8_Step ==
    \A key \in SingleMapped :
        LET K == key[1]
            up == <<K[1], K[2], 0>>
        IN  key_to_code[key] = DISABLE_CODE =>
            /\ Handles(K)
                  => /\ out' = out
                     /\ TypeCode(K) \in unreleased_keys(unreleased')
            /\ (Handles(up) /\ TypeCode(K) \in unreleased_keys(unreleased))
                  => /\ out' = out
                     /\ TypeCode(K) \notin unreleased_keys(unreleased')

C8_Inv == \A i \in 1..Len(out) : out[i][2] # DISABLE_CODE

\* C8: the down of a key mapped to DISABLE_CODE writes nothing and records an
\* entry in unreleased, its up removes the entry and writes nothing, and no
\* event of code DISABLE_CODE is ever written
C8_DisabledKey == [][C8_Step]_vars /\ []C8_Inv

C8_Witness ==
    /\ cfg = "dpad"
    /\ inp = <<<<EV_KEY, 40, 1>>, <<EV_KEY, 40, 0>>>>
    /\ out = <<>>
    /\ unreleased = <<>>

\* a button-hold event changes nothing
C9_Step ==
    (HandlesOne /\ Handled[1] = EV_KEY /\ Handled[3] = 2)
        => UNCHANGED <<out, unreleased, active_macros, runs, holding, running,
                       debounces>>

\* C9: an EV_KEY event of value 2 writes nothing, starts no macro and leaves
\* unreleased and active_macros as they are
C9_HoldRepeatDiscarded == [][C9_Step]_vars

C9_Witness ==
    /\ cfg = "holdmacro"
    /\ Len(inp) >= 2
    /\ Last(inp) = <<EV_KEY, 10, 2>>
    /\ runs # <<>>

\* the mapped wheel event of the preset wheel, its synthesized up, its target
C10_W == <<EV_REL, REL_WHEEL, 1>>

C10_Up == <<EV_REL, REL_WHEEL, 0>>

C10_X == SystemMapping["x"]

----------------------------------------------------------------------------
\* a call of start_injecting on an injector that was stopped or has a process
\* raises and starts nothing
C11_Step ==
    (starts' = starts + 1 /\ (stopped \/ process # None)) =>
        /\ raised' = raised + 1
        /\ created' = created
        /\ UNCHANGED <<process, pc, path, loop_tasks>>

\* C11: start_injecting raises on an injector that was already started or
\* that was stopped, in every order of the calls, and no second worker
\* process is ever created for one injector
C11_StartedAtMostOnce == [][C11_Step]_vars /\ [](created <= 1)

\* started, started again, stopped, started again: one process, two raises
C11_Witness == created = 1 /\ stopped /\ raised = 2

----------------------------------------------------------------------------
\* _prepare_device has returned for the node
C12_Prepared(p) == path > p

\* in the grab loop of the node every failed attempt was followed by a sleep
\* and fewer than 4 attempts were made
C12_Grabbing(p) ==
    (pc = "grab" /\ path = p) =>
        /\ grab_calls[p] < 4
        /\ attempts = grab_calls[p]
        /\ sleeps[p] = grab_calls[p]

\* with k < 4 failures the device is returned after k failed attempts and k
\* sleeps; with more it is not returned, after 4 attempts and 3 sleeps
C12_Returned(p) ==
    (C12_Prepared(p) /\ is_to_grab(custom_mapping, nodes[p])) =>
        IF nodes[p].busy < 4
        THEN /\ p \in grabbed
             /\ grab_calls[p] = nodes[p].busy + 1
             /\ sleeps[p] = nodes[p].busy
        ELSE /\ p \notin grabbed
             /\ grab_calls[p] = 4
             /\ sleeps[p] = 3

\* C12: for a node that needs grabbing _prepare_device calls grab at most 4
\* times and sleeps between a failed attempt and the next; it returns the
\* device exactly if one of these attempts succeeds, after exactly the k < 4
\* failed attempts before it, and returns no device after the 4th failure
C12_GrabAttempts ==
    \A p \in Paths :
        /\ grab_calls[p] <= 4
        /\ C12_Grabbing(p)
        /\ C12_Returned(p)
        /\ p \in grabbed => C12_Prepared(p) /\ is_to_grab(custom_mapping, nodes[p])

\* the first node was grabbed at the 4th attempt, the second was given up
C12_Witness ==
    /\ C12_Prepared(2)
    /\ is_to_grab(custom_mapping, nodes[1]) /\ nodes[1].busy = 3 /\ 1 \in grabbed
    /\ is_to_grab(custom_mapping, nodes[2]) /\ nodes[2].busy = 4 /\ 2 \notin grabbed

----------------------------------------------------------------------------
\* the consumers of the grabbed nodes, the control task and the producer
C13_Tasks ==
    {event_consumer_of(p) : p \in grabbed} \cup {msg_listener_task, event_producer_run}

\* the step of the worker that follows the loop over the paths
C13_Step ==
    (pc = "for path" /\ pc' # pc /\ path \notin Paths) =>
        IF grabbed = {}
        THEN /\ pc' = "returned"
             /\ ~is_alive'
             /\ loop_tasks' = {}
             /\ coroutines' = <<>>
        ELSE /\ pc' = "run_until_complete"
             /\ loop_tasks' = C13_Tasks

\* before that step nothing runs; a worker that grabbed nothing has started
\* nothing
C13_Inv ==
    /\ pc \in {"not started", "for path", "grab"} => loop_tasks = {}
    /\ pc = "run_until_complete" => grabbed # {} /\ loop_tasks = C13_Tasks
    /\ ended_by.by = "Did not grab any device" =>
           grabbed = {} /\ loop_tasks = {} /\ coroutines = <<>>

\* C13: with at least one node grabbed the worker runs the consumers of the
\* grabbed nodes (and the control task and the producer) although other
\* nodes could not be grabbed; with no node grabbed it starts no consumer,
\* producer or control task and returns, which ends the process
C13_SomeNodeSuffices == [][C13_Step]_vars /\ []C13_Inv

\* the first node was given up after 4 failed attempts, the second is read
C13_Witness ==
    /\ pc = "run_until_complete"
    /\ is_to_grab(custom_mapping, nodes[1]) /\ grab_calls[1] = 4 /\ 1 \notin grabbed
    /\ loop_tasks = {event_consumer_of(2), msg_listener_task, event_producer_run}
    /\ reads > 0

----------------------------------------------------------------------------
\* the control task receives a message: CLOSE ends the worker and all its
\* tasks, anything else leaves the worker and its tasks as they are
C14_Step ==
    (received' # received) =>
        /\ pc = "run_until_complete"
        /\ IF Head(msg_pipe) = CLOSE
           THEN /\ pc' = "returned"
                /\ ~is_alive'
                /\ loop_tasks' = {}
                /\ ended_by'.by = "CLOSE"
           ELSE /\ is_alive'
                /\ UNCHANGED <<pc, loop_tasks, coroutines, grabbed, uinputs,
                               ended_by>>

\* only CLOSE is a reason to stop that a message gives, and a worker that has
\* received CLOSE has stopped
C14_Inv ==
    /\ ended_by.by = "CLOSE" <=> (received # <<>> /\ Last(received) = CLOSE)
    /\ \A i \in 1..Len(received) :
           received[i] = CLOSE => (i = Len(received) /\ pc = "returned")

\* C14: a running injector stops all its tasks when it receives CLOSE and
\* ignores every other message: after any number of other messages it is
\* alive and injecting as before, and a CLOSE received then stops it
C14_OnlyCloseStops == [][C14_Step]_vars /\ []C14_Inv

\* two other messages were ignored, the CLOSE after them stopped the worker
C14_Witness ==
    /\ Len(received) = 3
    /\ received[1] # CLOSE /\ received[2] # CLOSE /\ received[3] = CLOSE
    /\ pc = "returned"
    /\ ended_by.by = "CLOSE"

----------------------------------------------------------------------------
\* C15: when the worker has ended, on whichever exit path, no source node is
\* grabbed and no virtual output is open
C15_ReleasedOnExit == pc = "returned" => (grabbed = {} /\ uinputs = {})

\* C16: a step in which reading a node raises an I/O error ends the consumer
\* of that node and nothing else: the worker goes on running the other tasks
C16_OnlyThatConsumerEnds ==
    [][(ended_by' # ended_by /\ ended_by'.by = "OSError reading") =>
          /\ pc' = "run_until_complete"
          /\ loop_tasks' = loop_tasks \ {event_consumer_of(ended_by'.node)}]_vars

\* C17: a step in which the write for an event fails drops the event and
\* ends nothing: the worker and all its tasks, the consumer among them, go on
C17_FailedWriteDropped ==
    [][(ended_by' # ended_by /\ ended_by'.by = "OSError writing") =>
          /\ pc' = "run_until_complete"
          /\ loop_tasks' = loop_tasks]_vars

----------------------------------------------------------------------------
\* k is the key with its sub-keys before the trigger in some order
C18_IsOrdering(k, key) ==
    /\ Len(k) = Len(key)
    /\ Last(k) = Last(key)
    /\ {k[i] : i \in 1..Len(k)} = {key[i] : i \in 1..Len(key)}

RECURSIVE C18_Factorial(_)
C18_Factorial(n) == IF n <= 1 THEN 1 ELSE n * C18_Factorial(n - 1)

\* the entries of the mapping that compile into key_to_code, and into macros
C18_Codes ==
    {i \in 1..Len(custom_mapping) :
        /\ ~is_this_a_macro(custom_mapping[i][2])
        /\ custom_mapping[i][2].symbol \in DOMAIN SystemMapping}

C18_Macros ==
    {i \in 1..Len(custom_mapping) :
        /\ is_this_a_macro(custom_mapping[i][2])
        /\ custom_mapping[i][2].macro \in MacroIds}

\* the table holds every ordering of every key of the entries, and nothing
\* else; an ordering points at the output of the (last) entry it is an
\* ordering of; a key of N sub-keys has (N-1)! orderings in the table
C18_Table(table, entries, value(_)) ==
    LET key_of(i) == custom_mapping[i][1]
        owners(k) == {i \in entries : C18_IsOrdering(k, key_of(i))}
        owner(k) == CHOOSE i \in owners(k) : \A j \in owners(k) : j <= i
    IN  /\ \A i \in entries : \A k \in Keys :
               C18_IsOrdering(k, key_of(i)) =>
                   /\ k \in DOMAIN table
                   /\ table[k] = table[key_of(i)]
        /\ \A k \in DOMAIN table :
               /\ owners(k) # {}
               /\ table[k] = value(custom_mapping[owner(k)][2])
        /\ \A i \in entries :
               Cardinality({k \in DOMAIN table : C18_IsOrdering(k, key_of(i))})
                   = C18_Factorial(Len(key_of(i)) - 1)

C18_CodeOf(output) == SystemMapping[output.symbol]

C18_MacroOf(output) == output.macro

\* C18: key_to_code, for the keycode outputs, and macros, for the macro
\* outputs, contain a mapped combination under every ordering of its sub-keys
\* that keeps the trigger last, all with the same output, and contain no
\* other key: a single key has one entry, a combination of N keys (N-1)!
C18_Permutations ==
    /\ C18_Table(key_to_code, C18_Codes, C18_CodeOf)
    /\ IF grabbed = {} THEN macros = <<>>
       ELSE C18_Table(macros, C18_Macros, C18_MacroOf)

\* a combination of 3 keys for a keycode and one for a macro, a node grabbed
C18_Witness ==
    /\ grabbed # {}
    /\ Len(custom_mapping) = 2
    /\ Len(custom_mapping[1][1]) = 3 /\ C18_Codes = {1}
    /\ Len(custom_mapping[2][1]) = 3 /\ C18_Macros = {2}
    /\ Cardinality(DOMAIN key_to_code) = 2
    /\ Cardinality(DOMAIN macros) = 2

----------------------------------------------------------------------------
\* C19: the second pass of an event through should_map_event_as_btn returns
\* the verdict of the first pass and leaves the value the first pass produced
C19_Idempotent ==
    Len(classified.verdicts) >= 2 =>
        /\ classified.verdicts[2].btn = classified.verdicts[1].btn
        /\ classified.verdicts[2].event = classified.verdicts[1].event

\* the event is of a joystick axis whose stick has the purpose buttons, on a
\* device that reports its max_abs, and was not classified yet
C20_StickAsButtons ==
    /\ classified.verdicts = <<>>
    /\ classified.event[1] = EV_ABS
    /\ classified.max_abs # <<>>
    /\ \/ classified.event[2] \in {ABS_X, ABS_Y} /\ classified.l_purpose = BUTTONS
       \/ classified.event[2] \in {ABS_RX, ABS_RY} /\ classified.r_purpose = BUTTONS

\* C20: the value v of such an event is normalized to sign(v) if |v| is
\* greater than half of max_abs, and to 0 if |v| is half of max_abs or less
C20_Threshold ==
    [][(C20_StickAsButtons /\ classified' # classified) =>
          classified'.event[3] =
              IF 2 * abs(classified.event[3]) > classified.max_abs[1]
              THEN sign(classified.event[3]) ELSE 0]_vars

----------------------------------------------------------------------------
\* the node has a mapped (type, code), or joystick axes to emulate
C21_Needed(p) ==
    \/ \E i \in 1..Len(custom_mapping) :
         \E j \in 1..Len(custom_mapping[i][1]) :
            LET sub_key == custom_mapping[i][1][j]
            IN  /\ sub_key[1] \in DOMAIN nodes[p].capabilities
                /\ sub_key[2] \in nodes[p].capabilities[sub_key[1]]
    \/ nodes[p].abs_to_rel

\* C21: a node is grabbed only if a (type, code) of a sub-key of a mapped
\* Key is among its capabilities or it has joystick axes to emulate; for
\* every other node and for a path without a node there is no call of
\* grab and no source: no uinput and no consumer either
C21_GrabbedOnlyIfNeeded ==
    \A p \in Paths :
        \/ nodes[p].exists /\ C21_Needed(p)
        \/ /\ grab_calls[p] = 0
           /\ p \notin grabbed
           /\ p \notin uinputs
           /\ \A i \in 1..Len(coroutines) : coroutines[i] # event_consumer_of(p)

\* node 1 has one sub-key only of the combination that is mapped and is
\* grabbed, the path 2 has no node and was passed over
C21_Witness ==
    /\ Len(custom_mapping) = 1 /\ Len(custom_mapping[1][1]) = 2
    /\ nodes[1].capabilities = (EV_KEY :> {42})
    /\ 1 \in grabbed
    /\ ~nodes[2].exists
    /\ pc = "run_until_complete"
    /\ grab_calls[2] = 0

----------------------------------------------------------------------------
\* the EV_KEY list of the uinput of a node
C22_Keys(p) == get_codes(uinput_events[p], EV_KEY)

\* C22: the EV_KEY list of the capabilities of a uinput holds every code
\* that is a value of key_to_code but the disable sentinel and every code of
\* get_capabilities() of every macro of the node, and DISABLE_CODE is not
\* in it
C22_KeyCapabilities ==
    \A p \in uinputs :
        /\ \A key \in DOMAIN key_to_code :
              key_to_code[key] # DISABLE_CODE => key_to_code[key] \in C22_Keys(p)
        /\ \A key \in DOMAIN macros : get_capabilities(macros[key]) \subseteq C22_Keys(p)
        /\ DISABLE_CODE \notin C22_Keys(p)

----------------------------------------------------------------------------
\* C23: the capabilities of a uinput hold none of EV_SYN, EV_FF and EV_ABS,
\* whatever the source has and whether abs_to_rel is false or true
C23_Stripped ==
    \A p \in uinputs : DOMAIN uinput_events[p] \cap {EV_SYN, EV_FF, EV_ABS} = {}

\* two sources that have all three, one with abs_to_rel and one without,
\* and a uinput is open for both
C23_Witness ==
    /\ uinputs = {1, 2}
    /\ \A p \in Paths : {EV_SYN, EV_FF, EV_ABS} \subseteq DOMAIN nodes[p].capabilities
    /\ nodes[1].abs_to_rel /\ ~nodes[2].abs_to_rel

----------------------------------------------------------------------------
----------------------------------------------------------------------------
\* the codes the mapping makes the uinput write
C25_Written ==
    injected_codes(key_to_code)
        \cup UNION {get_capabilities(macros[key]) : key \in DOMAIN macros}

\* C25: with abs_to_rel the uinput has EV_REL = {REL_X, REL_Y, REL_WHEEL,
\* REL_HWHEEL} and an EV_KEY list with BTN_LEFT and with the EV_KEY codes of
\* the source, also for a source without EV_KEY; without abs_to_rel EV_REL is
\* what the source has, and BTN_LEFT is there only if the source has it or
\* the mapping writes it
C25_Mouse ==
    \A p \in uinputs :
        LET source == nodes[p].capabilities
            events == uinput_events[p]
        IN  IF nodes[p].abs_to_rel
            THEN /\ EV_REL \in DOMAIN events
                 /\ events[EV_REL] = {REL_X, REL_Y, REL_WHEEL, REL_HWHEEL}
                 /\ EV_KEY \in DOMAIN events
                 /\ BTN_LEFT \in events[EV_KEY]
                 /\ get_codes(source, EV_KEY) \subseteq events[EV_KEY]
            ELSE /\ EV_REL \in DOMAIN events <=> EV_REL \in DOMAIN source
                 /\ get_codes(events, EV_REL) = get_codes(source, EV_REL)
                 /\ BTN_LEFT \in get_codes(events, EV_KEY) =>
                       BTN_LEFT \in get_codes(source, EV_KEY) \cup C25_Written

\* a gamepad without EV_KEY and with abs_to_rel, and a mouse without
\* abs_to_rel that has EV_REL and BTN_LEFT of its own
C25_Witness ==
    /\ uinputs = {1, 2}
    /\ nodes[1].abs_to_rel /\ EV_KEY \notin DOMAIN nodes[1].capabilities
    /\ ~nodes[2].abs_to_rel /\ EV_REL \in DOMAIN nodes[2].capabilities
    /\ BTN_LEFT \in uinput_events[2][EV_KEY]

----------------------------------------------------------------------------
\* the entries of the mapping whose output is a name the system mapping
\* does not have
C26_Dropped ==
    {i \in 1..Len(custom_mapping) :
        /\ custom_mapping[i][2].symbol # None
        /\ custom_mapping[i][2].symbol \notin DOMAIN SystemMapping}

\* the sub-keys of the dropped entries, by type and code
C26_Inputs ==
    UNION {{TypeCode(custom_mapping[i][1][n]) : n \in 1..Len(custom_mapping[i][1])} :
              i \in C26_Dropped}

\* no ordering of the key of a dropped entry is in key_to_code or macros,
\* the key of every other entry is in the table of its output
C26_Table ==
    \A i \in 1..Len(custom_mapping) :
        LET key == custom_mapping[i][1]
            output == custom_mapping[i][2]
        IN  IF i \in C26_Dropped
            THEN \A k \in DOMAIN key_to_code \cup DOMAIN macros :
                    ~C18_IsOrdering(k, key)
            ELSE IF output.symbol # None
            THEN /\ key \in DOMAIN key_to_code
                 /\ key_to_code[key] = SystemMapping[output.symbol]
            ELSE key \in DOMAIN macros /\ macros[key] = output.macro

\* what C26 says of one step: a down of an input of a dropped entry is
\* written as it is, and so is the up of an input that is held down
C26_Step ==
    \A type_code \in C26_Inputs :
        LET down == <<type_code[1], type_code[2], 1>>
            up == <<type_code[1], type_code[2], 0>>
        IN  /\ Handles(down) => out' = out \o <<down, SYN>>
            /\ (Handles(up) /\ Pressed(inp, type_code) # <<>>)
                  => out' = out \o <<up, SYN>>

\* C26: a mapping whose output name is not in the system mapping is in
\* key_to_code under no ordering of its sub-keys while the other mappings of
\* the preset are installed, and the down and the up of its inputs are written
\* to the uinput with their own type and code
C26_UnknownDropped == []C26_Table /\ [][C26_Step]_vars

\* the three keys of the dropped combination went down and its trigger up,
\* all four events are in the uinput as they were read
C26_Witness ==
    /\ cfg = "unknown"
    /\ C26_Dropped = {1}
    /\ DOMAIN key_to_code = {Key1(<<EV_KEY, 23, 1>>)}
    /\ inp = <<<<EV_KEY, 20, 1>>, <<EV_KEY, 21, 1>>, <<EV_KEY, 22, 1>>,
               <<EV_KEY, 22, 0>>>>
    /\ out = <<<<EV_KEY, 20, 1>>, SYN, <<EV_KEY, 21, 1>>, SYN,
               <<EV_KEY, 22, 1>>, SYN, <<EV_KEY, 22, 0>>, SYN>>

----------------------------------------------------------------------------
\* the texts of Code by what is wrong with them: brackets that do not match,
\* an unknown function, a wrong number of parameters, a body that is no
\* macro, a count that is no number, an unknown key or modifier
C27_Faulty ==
    {"e_opening", "e_closing", "e_leading", "e_trailing"}
        \cup {"e_function", "e_upper_k", "e_upper_r"}
        \cup {"e_many", "e_few"}
        \cup {"e_body_r", "e_body_m", "e_body_h"}
        \cup {"e_count", "e_count_macro"}
        \cup {"e_key", "e_modifier", "e_chain", "e_short"}

\* what C27 says of parse for the text of one output
C27_Parsed(id) ==
    LET macro == parse(Code[id], FALSE)
        errors == parse(Code[id], TRUE)
    IN  /\ macro.type # "raised" /\ errors.type # "raised"
        /\ IF id \in C27_Faulty
           THEN macro = NoneValue /\ errors.type = "str"
           ELSE macro.type = "_Macro" /\ errors = NoneValue

\* what C27 says of the macros of a worker that has grabbed a node
C27_Installed(i) ==
    LET key == custom_mapping[i][1]
        output == custom_mapping[i][2]
    IN  /\ is_this_a_macro(output) =>
              IF output.macro \in C27_Faulty THEN key \notin DOMAIN macros
              ELSE key \in DOMAIN macros /\ macros[key] \in MacroIds
        /\ ended_by.by # "AttributeError"

\* C27: parse does not raise; for a text with unequal numbers of brackets, an
\* unknown function, a wrong number of parameters, a body that is no macro,
\* a count that is no number or an unknown key it returns None, and the error
\* with return_errors; for a valid text it returns a macro, and None with
\* return_errors; the worker installs no macros entry for a text that failed
\* and goes on with the other mappings
C27_ParseFailures ==
    \A i \in 1..Len(custom_mapping) :
        custom_mapping[i][2].macro # None =>
            /\ C27_Parsed(custom_mapping[i][2].macro)
            /\ grabbed # {} => C27_Installed(i)

----------------------------------------------------------------------------
RECURSIVE C28_Instance(_)
\* the instance of MacroTable with the instances of its bodies in the place
\* of their names
C28_Instance(id) ==
    LET macro == MacroTable[id]
    IN  [tasks |-> [i \in DOMAIN macro.tasks |->
                       IF "macro" \in DOMAIN macro.tasks[i]
                       THEN [macro.tasks[i] EXCEPT !.macro = C28_Instance(@)]
                       ELSE macro.tasks[i]],
         child_macros |-> [i \in DOMAIN macro.child_macros |->
                              C28_Instance(macro.child_macros[i])],
         capabilities |-> macro.capabilities]

\* what the handler writes for one call of it
C28_Write(name, value) == <<<<EV_KEY, SystemMapping[name], value>>, SYN>>

\* the output of k(x), of m(mod, body) and of r(n, body); the output of a
\* chain a.b is that of a \o that of b
C28_k(name) == C28_Write(name, 1) \o C28_Write(name, 0)

C28_m(modifier, body) == C28_Write(modifier, 1) \o body \o C28_Write(modifier, 0)

RECURSIVE C28_r(_, _)
C28_r(n, body) == IF n <= 0 THEN <<>> ELSE body \o C28_r(n - 1, body)

\* the output of one run of the texts without h:
\* k(KEY_Q).k(w), m(w, r(02, k(x))).k(y), k(disable), r(0, k(y)).w(2)
C28_Output ==
    [qw |-> C28_k("key_q") \o C28_k("w"),
     m_w |-> C28_m("w", C28_r(2, C28_k("x"))) \o C28_k("y"),
     off |-> C28_k("disable"),
     r_0 |-> C28_r(0, C28_k("y"))]

\* set_handler was called before run was called for the first time
C28_HandlerFirst ==
    \E i \in 1..Len(calls) :
        /\ calls[i] = "set_handler"
        /\ \A j \in 1..(i - 1) : calls[j] # "run"

\* C28: a run of a parsed macro writes through the handler (x,1), (x,0) for
\* k(x); (mod,1), the output of body, (mod,0) for m(mod, body); the output of
\* body n times for r(n, body); the output of a before that of b for a.b.
\* Nothing is written before run is called, nor without set_handler, and
\* with set_handler the output of the child macros is written as well
C28_RunWrites ==
    LET started == Count(calls, "run")
    IN  /\ C28_Instance(cfg) = parse(Code[cfg], FALSE).value
        /\ started = 0 => out = <<>>
        /\ "set_handler" \notin {calls[i] : i \in 1..Len(calls)} => out = <<>>
        /\ (cfg \in DOMAIN C28_Output /\ C28_HandlerFirst) =>
              /\ IsPrefix(out, C28_r(started, C28_Output[cfg]))
              /\ runs = <<>> => out = C28_r(started, C28_Output[cfg])

\* m(w, r(02, k(x))).k(y) ran to its end with a handler
C28_Witness ==
    /\ cfg = "m_w"
    /\ calls = <<"set_handler", "run">>
    /\ runs = <<>>
    /\ Len(out) = 16
    /\ out = C28_Output[cfg]

----------------------------------------------------------------------------
\* the writes of k(x).h(k(a)).k(y): the first step, the body of h, the last
\* step, down and up
C29_First(value) == <<EV_KEY, SystemMapping["x"], value>>

C29_Body(value) == <<EV_KEY, SystemMapping["a"], value>>

C29_Final(value) == <<EV_KEY, SystemMapping["y"], value>>

\* the last event in the uinput, None before the first
C29_Written == IF out = <<>> THEN None ELSE out[Len(out) - 1]

\* the run of k(x).h(k(a)).k(y) is over
C29_Finished == runs = <<>> /\ ~running[cfg]

\* what C29 says of one step of a run with a handler: after the first step
\* and after every iteration the body of h is run if holding is true and
\* the last step if it is not; an iteration that has begun completes
C29_Step ==
    (cfg = "khk" /\ C28_HandlerFirst /\ runs # <<>> /\ calls' = calls) =>
        LET writes(event) == out' = out \o <<event, SYN>> /\ runs' # <<>>
        IN  CASE C29_Written = None \/ (C29_Written = C29_Final(0) /\ ~running[cfg])
                    -> writes(C29_First(1))
              [] C29_Written = C29_First(1) -> writes(C29_First(0))
              [] C29_Written \in {C29_First(0), C29_Body(0)}
                    -> IF holding[cfg] THEN writes(C29_Body(1))
                       ELSE writes(C29_Final(1))
              [] C29_Written = C29_Body(1) -> writes(C29_Body(0))
              [] C29_Written = C29_Final(1) -> writes(C29_Final(0))
              [] C29_Written = C29_Final(0) /\ running[cfg]
                    -> out' = out /\ runs' = <<>> /\ ~running'[cfg]

\* the first output is the down of the first step; once the run is over the
\* last output is the up of the last step
C29_Ends ==
    (cfg = "khk" /\ C28_HandlerFirst /\ out # <<>>) =>
        /\ out[1] = C29_First(1)
        /\ runs = <<>> => C29_Written = C29_Final(0) /\ ~running[cfg]

\* C29: in k(x).h(k(a)).k(y) the body of h is run again and again while
\* holding is true; after release_key the iteration in progress completes,
\* no other one starts and the steps after h run; the first output is the
\* down of the first step and the last one the up of the last step; if the
\* key stays released the macro finishes, with running false
C29_Hold ==
    /\ [][C29_Step]_vars
    /\ []C29_Ends
    /\ (<>[](~holding[cfg])) => <>[]C29_Finished

\* test_hold: press_key, run, three iterations of the body, release_key, and
\* the run is over
C29_Witness ==
    /\ cfg = "khk"
    /\ calls = <<"set_handler", "press_key", "run", "release_key">>
    /\ C29_Finished
    /\ Count(out, C29_Body(1)) = 3
    /\ out[1] = C29_First(1)
    /\ C29_Written = C29_Final(0)

----------------------------------------------------------------------------
\* the names a text gives to its k and m calls, at any depth
C30_Names(text) ==
    {text[i + 2] : i \in {i \in 1..(Len(text) - 2) :
                              text[i] \in {"k", "m"} /\ text[i + 1] = "("}}

\* the codes the k and m calls of a macro itself write
C30_Own(id) ==
    LET tasks == MacroTable[id].tasks
    IN  {tasks[i].code : i \in {i \in 1..Len(tasks) :
                                   tasks[i].kind \in {"KEYSTROKE", "MODIFIER"}}}

\* the bodies of the r, m and h calls of a macro
C30_Children(id) ==
    LET children == MacroTable[id].child_macros
    IN  {children[i] : i \in 1..Len(children)}

\* C30: get_capabilities() of a macro is the union of get_capabilities() of
\* its child macros and of the codes of its own k and m calls, so for a
\* parsed text the codes of all the k and m calls in it, and nothing else;
\* these are the codes the worker adds to the uinput of a node
C30_Capabilities ==
    /\ \A id \in MacroIds :
          get_capabilities(id) =
              C30_Own(id) \cup UNION {get_capabilities(child) :
                                         child \in C30_Children(id)}
    /\ \A key \in DOMAIN macros :
          macros[key] \in MacroIds =>
              /\ get_capabilities(macros[key]) =
                    {SystemMapping[name] : name \in C30_Names(Code[macros[key]])}
              /\ \A p \in uinputs :
                    get_capabilities(macros[key]) \subseteq uinput_events[p][EV_KEY]

\* the codes of m(w, r(02, k(x))).k(y) are in the uinput of a node: those of
\* w and y from the macro, that of x from the body of its body
C30_Witness ==
    \E p \in uinputs : \E key \in DOMAIN macros :
        /\ macros[key] = "m_w"
        /\ get_capabilities("m_w") =
              {SystemMapping["w"], SystemMapping["x"], SystemMapping["y"]}
        /\ get_capabilities("m_w") \subseteq uinput_events[p][EV_KEY]

----------------------------------------------------------------------------
\* the worker begins, and the worker goes on to run its coroutines
C31_Begins == pc = "not started" /\ pc' = "for path"

C31_Runs == pc = "for path" /\ pc' = "run_until_complete"

\* what C31 says of the worker in one step, restores being whether the value
\* read is set: it reads NumLock before any grab, keeps what it read, and
\* sets NumLock to it once the uinputs are open
C31_Worker(restores) ==
    /\ C31_Begins =>
          /\ numlock_state' = (IF desktop.xset THEN numlock ELSE None)
          /\ grabbed = {} /\ \A p \in Paths : grab_calls[p] = 0
    /\ pc \in {"for path", "grab"} => numlock_state' = numlock_state
    /\ C31_Runs =>
          /\ uinputs # {}
          /\ numlock' = IF numlock_state # None /\ restores THEN numlock_state
                         ELSE numlock

\* what C31 says of one call of a wrapped function
C31_Call(restores) ==
    Len(ensured') > Len(ensured) =>
        LET call == Last(ensured')
        IN  /\ call.began = numlock
            /\ numlock' = IF desktop.xset /\ restores THEN call.began
                           ELSE call.left

----------------------------------------------------------------------------
\* what a step wrote
C32_Added == SubSeq(out', Len(out) + 1, Len(out'))

\* events written with uinput.syn() behind each of them
C32_Synced(events) ==
    /\ Len(events) % 2 = 0
    /\ \A i \in 1..Len(events) :
          IF i % 2 = 0 THEN events[i] = SYN ELSE events[i][1] # EV_SYN

\* the consumer read an event that it hands to nobody
C32_Forwards == nread' # nread /\ inp' = inp

\* C32 as the specification has it: an event written to the uinput is
\* followed by an EV_SYN before any other event is written to it
C32_SynFollows ==
    \A i \in 1..(Len(out) - 1) :
        out[i][1] # EV_SYN => out[i + 1][1] = EV_SYN

\* what the corrected C32 says of one step
C32_Step ==
    /\ IsPrefix(out, out')
    /\ IF C32_Forwards
       THEN \/ C32_Added = <<>>
            \/ \E raw \in Presets[cfg].events :
                  /\ ~should_map_event_as_btn(max_abs, raw, l_purpose, r_purpose).btn
                  /\ C32_Added = <<raw>>
       ELSE C32_Synced(C32_Added)

\* C32: what the tracker writes (mapped down, mapped up, forwarded key) and
\* what a macro writes is written with an EV_SYN right behind it, in every
\* interleaving of the consumer and the macros; an event that is no button
\* is forwarded by the consumer as it is, without an EV_SYN of its own, the
\* SYN_REPORT of the source being forwarded like any other such event
C32_SynAfterKeys == [][C32_Step]_vars

\* the macro wrote between a movement of the mouse and the SYN_REPORT of
\* its packet
C32_Witness ==
    /\ cfg = "pointer"
    /\ Len(out) = 4
    /\ out[1] = <<EV_REL, REL_X, 5>>
    /\ out[2] = <<EV_KEY, SystemMapping["key_q"], 1>>
    /\ out[3] = SYN
    /\ out[4] = <<EV_SYN, SYN_REPORT, 0>>
    /\ nread = 3

----------------------------------------------------------------------------
\* the steps of the tasks of the event loop: the consumer handles an event
\* it read, the producer makes a deferred call, a macro runs on
C33_Consumes == nread' = nread + 1

C33_Defers == ~C33_Consumes /\ inp' # inp

C33_MacroRuns == ~C33_Consumes /\ inp' = inp /\ runs' # runs

\* what C33 says of the step that handles a read event: the event is handed
\* to the tracker or forwarded in that step, before the next one is read;
\* what it writes is one event, the output of no macro
C33_Handled ==
    C33_Consumes =>
        /\ inp' = inp \/ (Len(inp') = Len(inp) + 1 /\ IsPrefix(inp, inp'))
        /\ IsPrefix(out, out') /\ Len(C32_Added) <= 2
        /\ Len(runs') > Len(runs) => out' = out

\* C33 as the specification has it: the events of the node are handled one at
\* a time in the order they are read, so what is written for them is in the
\* uinput in input order, and nothing but the output of macros is written
\* in between
C33_OnlyMacrosBetween ==
    [][C33_Handled /\ (out' # out => C33_Consumes \/ C33_MacroRuns)]_vars

\* C33: the same, and the release of a wheel event, which the consumer
\* defers, is written in between as well: by the producer, three ticks after
\* the wheel event
C33_InInputOrder ==
    [][/\ C33_Handled
       /\ out' # out => C33_Consumes \/ C33_MacroRuns \/ C33_Defers
       /\ C33_Defers =>
             /\ IsPrefix(inp, inp') /\ IsPrefix(out, out')
             /\ \A i \in (Len(inp) + 1)..Len(inp') :
                   /\ is_key_up(inp'[i])
                   /\ is_wheel(<<inp'[i][1], inp'[i][2], 1>>)
                   /\ \E j \in 1..Len(inp) :
                         /\ TypeCode(inp[j]) = TypeCode(inp'[i])
                         /\ stamps'[i] >= stamps[j] + DEBOUNCE_TICKS]_vars

\* the wheel moved, then the other wheel; the release of the first was
\* written after the output of the second
C33_Witness ==
    /\ cfg = "wheel"
    /\ inp = <<<<EV_REL, REL_WHEEL, 1>>, <<EV_REL, REL_HWHEEL, 1>>,
               <<EV_REL, REL_WHEEL, 0>>>>
    /\ out = <<<<EV_KEY, SystemMapping["x"], 1>>, SYN,
               <<EV_REL, REL_HWHEEL, 1>>, SYN,
               <<EV_KEY, SystemMapping["x"], 0>>, SYN>>

----------------------------------------------------------------------------
\* the keys of the preset longest and their targets
C34_A == <<EV_KEY, 60, 1>>

C34_B == <<EV_KEY, 61, 1>>

C34_C == <<EV_KEY, 62, 1>>

\* the input is held: a down was the last that was heard of it
C34_Held(key) == ~Released(TypeCode(key))

C34_Writes(event) == out' = out \o <<event, SYN>>

\* C34: with a + b + c -> x and b + c -> y, the down of c writes x down if a
\* and b are held, y down if only b is held, and c itself if b is not held;
\* the downs of a and b, which are the last sub-key of no mapped combination,
\* are forwarded whatever is held; no step writes a target but the down of
\* the trigger c
C34_LongestFirst ==
    [][cfg = "longest" =>
        /\ (Handles(C34_C) /\ ~C34_Held(C34_C)) =>
              IF C34_Held(C34_A) /\ C34_Held(C34_B)
              THEN C34_Writes(<<EV_KEY, SystemMapping["x"], 1>>)
              ELSE IF C34_Held(C34_B)
              THEN C34_Writes(<<EV_KEY, SystemMapping["y"], 1>>)
              ELSE C34_Writes(C34_C)
        /\ \A key \in {C34_A, C34_B} :
              (Handles(key) /\ ~C34_Held(key)) => C34_Writes(key)
        /\ (\E name \in {"x", "y"} :
               Count(out', <<EV_KEY, SystemMapping[name], 1>>)
                  > Count(out, <<EV_KEY, SystemMapping[name], 1>>))
              => Handles(C34_C)]_vars

\* a and b were held when c went down: x was written and y never
C34_Witness ==
    /\ cfg = "longest"
    /\ inp = <<C34_A, C34_B, C34_C>>
    /\ out = <<C34_A, SYN, C34_B, SYN, <<EV_KEY, SystemMapping["x"], 1>>, SYN>>

----------------------------------------------------------------------------
\* the up events the tracker may be handed
C35_Ups ==
    UNION {{<<e[1], e[2], 0>> : e \in Presets[name].events} : name \in PresetNames}

\* what C35 says of the step that handles the up event: the target that
\* unreleased holds for the input is released, the entry is gone, and no
\* other entry changes
C35_Step(up) ==
    LET type_code == TypeCode(up)
    IN  Handles(up) =>
          /\ unreleased' = unreleased_del(unreleased, type_code)
          /\ IF type_code \in unreleased_keys(unreleased)
             THEN LET target == unreleased_get(unreleased, type_code).target
                  IN  IF target[2] = DISABLE_CODE THEN out' = out
                      ELSE C34_Writes(<<target[1], target[2], 0>>)
             ELSE out' = out

\* the target unreleased holds for an input that went down once is the one
\* that down was mapped to: with b + c -> y and a + b + c -> x it is x if a
\* and b were held when c went down and y if only b was, and it stays that
\* when a or b is released afterwards
C35_Recorded ==
    (cfg = "longest" /\ Len(Pressed(inp, TypeCode(C34_C))) = 1) =>
        LET downs == {i \in 1..Len(inp) : inp[i] = C34_C}
            last == CHOOSE i \in downs : \A j \in downs : j <= i
            before == SubSeq(inp, 1, last - 1)
            held(key) == LET edges == Edges(before, TypeCode(key))
                         IN  edges # <<>> /\ ~is_key_up(Last(edges))
        IN  /\ TypeCode(C34_C) \in unreleased_keys(unreleased)
            /\ unreleased_get(unreleased, TypeCode(C34_C)).target =
                  IF held(C34_A) /\ held(C34_B)
                  THEN <<EV_KEY, SystemMapping["x"]>>
                  ELSE IF held(C34_B)
                  THEN <<EV_KEY, SystemMapping["y"]>>
                  ELSE TypeCode(C34_C)

\* C35: the up of an input writes the up of the target that unreleased
\* recorded when the input went down, whatever else is held or was released
\* since: no combination is looked for
C35_UpReleasesRecorded ==
    /\ []C35_Recorded
    /\ [][\A up \in C35_Ups : C35_Step(up)]_vars

\* (b, c) -> y was triggered, b was released before c: the up of c wrote y up
C35_Witness ==
    /\ cfg = "longest"
    /\ inp = <<C34_B, C34_C, <<EV_KEY, 61, 0>>, <<EV_KEY, 62, 0>>>>
    /\ out = <<C34_B, SYN, <<EV_KEY, SystemMapping["y"], 1>>, SYN,
               <<EV_KEY, 61, 0>>, SYN, <<EV_KEY, SystemMapping["y"], 0>>, SYN>>

----------------------------------------------------------------------------
C36_TablesChange == unreleased' # unreleased \/ active_macros' # active_macros

\* what a run does next does not depend on what the two tables hold
C36_MacroBlind ==
    \A i \in 1..Len(runs) :
        LET seen == resume(runs[i], tracker)
            blind == resume(runs[i], [tracker EXCEPT !.unreleased = <<>>,
                                                     !.active_macros = <<>>])
        IN  /\ seen.stack = blind.stack
            /\ seen.s.out = blind.s.out
            /\ seen.s.holding = blind.s.holding
            /\ seen.s.running = blind.s.running

\* C36 as the specification has it: unreleased and active_macros are read
\* and changed by the consumer alone, not by the producer when it makes a
\* deferred call and not by a macro
C36_ConsumerOnly ==
    /\ []C36_MacroBlind
    /\ [][C36_TablesChange => C33_Consumes]_vars

\* C36: no macro reads or changes unreleased or active_macros; the consumer
\* does, and so does the producer when it makes the deferred call of
\* handle_keycode that releases a wheel
C36_TrackerCallsOnly ==
    /\ []C36_MacroBlind
    /\ [][/\ C36_TablesChange => C33_Consumes \/ C33_Defers
          /\ C33_MacroRuns => ~C36_TablesChange]_vars

\* the producer released the wheel: the entry of the wheel is gone, with no
\* event read since the wheel event
C36_Witness ==
    /\ cfg = "wheel"
    /\ nread = 1
    /\ inp = <<C10_W, C10_Up>>
    /\ unreleased = <<>>
    /\ Count(out, <<EV_KEY, C10_X, 0>>) = 1

----------------------------------------------------------------------------
\* the text with the names of its functions in small letters
C37_Lower(text) ==
    [i \in 1..Len(text) |->
        IF i < Len(text) /\ text[i + 1] = "("
        THEN CASE text[i] = "K" -> "k"
               [] text[i] = "R" -> "r"
               [] OTHER -> text[i]
        ELSE text[i]]

\* C37: a text that differs from a valid one in the case of the names of its
\* functions only, K(a) for k(a) and R(2, K(a)) for r(2, k(a)), is parsed to
\* the same macro
C37_CaseInsensitive ==
    \A i \in 1..Len(custom_mapping) :
        LET output == custom_mapping[i][2]
            same(a, b) == /\ a.type = b.type
                          /\ a.type = "_Macro" => a.value = b.value
        IN  output.macro # None =>
              /\ same(parse(Code[output.macro], FALSE),
                      parse(C37_Lower(Code[output.macro]), FALSE))
              /\ same(parse(Code[output.macro], TRUE),
                      parse(C37_Lower(Code[output.macro]), TRUE))

----------------------------------------------------------------------------
\* the keys of the preset macrosub: M starts a macro, (M, T) is mapped to x
C38_M == <<EV_KEY, 70, 1>>

C38_T == <<EV_KEY, 71, 1>>

\* the consumer starts a macro in this step
C38_Starts == C33_Consumes /\ Len(runs') = Len(runs) + 1

\* C38: the down that starts a macro writes nothing and leaves unreleased as
\* it is; with M -> macro and (M, T) -> x the input M is never in unreleased,
\* its up writes nothing, and the down of T is forwarded, held M or not: x
\* is never written
C38_MacroKeyNotHeld ==
    /\ [](cfg = "macrosub" =>
            /\ TypeCode(C38_M) \notin unreleased_keys(unreleased)
            /\ Count(out, <<EV_KEY, SystemMapping["x"], 1>>) = 0)
    /\ [][/\ C38_Starts => out' = out /\ unreleased' = unreleased
          /\ cfg = "macrosub" =>
                /\ (Handles(C38_M) /\ active_macros = <<>>) => C38_Starts
                /\ Handles(<<EV_KEY, 70, 0>>) => out' = out
                /\ (Handles(C38_T) /\ Released(TypeCode(C38_T)))
                      => C34_Writes(C38_T)]_vars

\* M went down and started the macro, T went down while M was held and was
\* forwarded, M went up: nothing was written for M
C38_Witness ==
    /\ cfg = "macrosub"
    /\ inp = <<C38_M, C38_T, <<EV_KEY, 70, 0>>>>
    /\ OfCodes(out, {70, 71, SystemMapping["x"]}) = <<C38_T>>
    /\ runs = <<>>

----------------------------------------------------------------------------
\* the inputs that are mapped to a macro by themselves
C39_MacroKeys == {key \in DOMAIN macros : Len(key) = 1 /\ macros[key] \in MacroIds}

\* what C39 says of the step that handles the down of such an input
C39_Step(key) ==
    LET macro == macros[key]
    IN  Handles(key[1]) =>
          IF running[macro]
          THEN runs' = runs /\ out' = out /\ holding' = holding
          ELSE /\ runs' = Append(runs, <<[macro |-> macro, pc |-> 0]>>)
               /\ active_macros' = (TypeCode(key[1]) :> macro) @@ active_macros
               /\ holding'[macro]

\* C39: the down of a key that is mapped to a macro starts the macro unless
\* the macro is running: the first time, after an up, and without an up when
\* the run of the down before has ended
C39_StartsUnlessRunning ==
    [][\A key \in C39_MacroKeys : C39_Step(key)]_vars

\* the key went down twice and never up; the run of the first down has
\* written all of k(KEY_Q).k(w), the run of the second is under way
C39_Witness ==
    /\ cfg = "pointer"
    /\ inp = <<<<EV_KEY, 11, 1>>, <<EV_KEY, 11, 1>>>>
    /\ Len(out) = 10
    /\ SubSeq(out, 1, 8) = <<<<EV_KEY, 101, 1>>, SYN, <<EV_KEY, 101, 0>>, SYN,
                             <<EV_KEY, 102, 1>>, SYN, <<EV_KEY, 102, 0>>, SYN>>
    /\ Len(runs) = 1
    /\ running["qw"]

----------------------------------------------------------------------------
\* a run() of the macro has made its first step and has not ended
C40_InProgress(macro) ==
    \E i \in 1..Len(runs) :
        \E j \in 1..Len(runs[i]) :
            runs[i][j].macro = macro /\ runs[i][j].pc > 0

\* C40: running of a macro is true exactly while a run() of it is in
\* progress, from its first step to its end, also when two runs of the
\* instance overlap
C40_RunningIffInProgress ==
    \A macro \in DOMAIN running : running[macro] <=> C40_InProgress(macro)
====
